---- MODULE Spec2Model ----
(***************************************************************************)
(* Samkitec document repository: the upload, delete, rename/replace and    *)
(* list handlers of the five server variants found in the repository.      *)
(*                                                                         *)
(*   "pg"    src/server/index.js 1-204    Cloudinary + Postgres            *)
(*   "clam"  src/server/index.js 205-386  Cloudinary + Postgres + ClamAV   *)
(*           (the fragment at 387-472 is the same handler, always scanning)*)
(*   "audit" src/unnamed/part_003         ClamAV + Cloudinary + audit log  *)
(*   "fs"    src/server/migrate.js 25-221 upload directory + SQLite        *)
(*   "cs"    src/unnamed/part_004         CloudinaryStorage + SQLite       *)
(*                                                                         *)
(* Every request is a sequence of steps separated by the awaits/callbacks  *)
(* of the handler; the external call's effect and the code that runs when  *)
(* it returns form one step.  Every external call may fail.                *)
(*                                                                         *)
(* The startup of part_003 (connectWithRetry / initDb) and the list        *)
(* fetching of the client (src/client/src/App.jsx, part_000, part_001)     *)
(* are modelled the same way, in boot and client.                          *)
(***************************************************************************)
EXTENDS Integers, Sequences, FiniteSets, TLC

\* ---------------------------------------------------------------- bounds
MaxReqs == 2

\* Number of connection attempts that fail while the database starts.
MaxFailures == 6

\* Number of times the user changes the filters.
MaxEdits == 2

Reqs == 1..MaxReqs

\* ------------------------------------------------------------- constants
Variants == {"pg", "clam", "audit", "fs", "cs"}
TempVariants == {"pg", "clam", "audit"}

PDF == "application/pdf"
DOC == "application/msword"
DOCX == "application/vnd.openxmlformats-officedocument.wordprocessingml.document"
PNG == "image/png"

allowedTypes == {PDF, DOC, DOCX}

FOLDER == "samkitec_reports"

\* -------------------------------------------------------- request inputs
\* Names and titles are sequences of characters; <<>> is the empty string.
NoFile == [present |-> FALSE, originalname |-> <<>>, mimetype |-> "", size |-> 0]

File(n, m, s) == [present |-> TRUE, originalname |-> n, mimetype |-> m, size |-> s]

Body(t, d, ty) == [title |-> t, description |-> d, doc_type |-> ty]

UploadInputs ==
  { [file |-> File(<<"a", ".", "p">>, PDF, 2), body |-> Body(<<"R">>, "d", "work")],
    [file |-> File(<<"i", ".", "g">>, PNG, 1), body |-> Body(<<>>, "", "")],
    [file |-> File(<<"c">>, DOC, 0), body |-> Body(<<>>, "", "")],
    [file |-> NoFile, body |-> Body(<<>>, "", "")] }

\* PUT /api/documents/:id without a file: a rename, an empty body, a
\* description change.
PutInputs ==
  { [file |-> NoFile, body |-> Body(<<"N">>, "", "")],
    [file |-> NoFile, body |-> Body(<<>>, "", "")],
    [file |-> NoFile, body |-> Body(<<>>, "e", "")] }

\* PUT /api/documents/:id with a replacement file.
ReplaceInputs ==
  { [file |-> File(<<"b", ".", "p">>, PDF, 1), body |-> Body(<<>>, "", "")] }

\* A date parameter of the list query: absent, the empty string ("empty"),
\* whitespace ("blank"), a text that is not a date ("malformed"), or a day.
NoDate == [kind |-> "absent", day |-> 0]

BadDate(k) == [kind |-> k, day |-> 0]

OnDay(n) == [kind |-> "day", day |-> n]

\* A limit / offset parameter that the query string does not carry.
Absent == -1

Query(s, ty, f, t, l, o) ==
  [search |-> s, type |-> ty, from |-> f, to |-> t, limit |-> l, offset |-> o]

NoFilters == Query(<<>>, "", NoDate, NoDate, Absent, Absent)

\* GET /api/documents: no filters, a search in the other case, a search
\* made of a LIKE wildcard, a type filter.
ListInputs ==
  { NoFilters,
    Query(<<"r">>, "", NoDate, NoDate, Absent, Absent),
    Query(<<"_">>, "", NoDate, NoDate, Absent, Absent),
    Query(<<>>, "process", NoDate, NoDate, Absent, Absent) }

\* GET /api/documents on the shelf: each filter alone, dates that are not
\* dates, pages, and filters together.
ShelfInputs ==
  { NoFilters,
    Query(<<>>, "work", NoDate, NoDate, Absent, Absent),
    Query(<<>>, "all", NoDate, NoDate, Absent, Absent),
    Query(<<>>, "memo", NoDate, NoDate, Absent, Absent),
    Query(<<>>, "", OnDay(1), NoDate, Absent, Absent),
    Query(<<>>, "", NoDate, OnDay(1), Absent, Absent),
    Query(<<>>, "", NoDate, OnDay(0), Absent, Absent),
    Query(<<>>, "", OnDay(2), NoDate, Absent, Absent),
    Query(<<>>, "", BadDate("empty"), NoDate, Absent, Absent),
    Query(<<>>, "", BadDate("blank"), NoDate, Absent, Absent),
    Query(<<>>, "", NoDate, BadDate("malformed"), Absent, Absent),
    Query(<<>>, "", NoDate, NoDate, 1, 1),
    Query(<<>>, "", NoDate, NoDate, 2, Absent),
    Query(<<"r">>, "work", OnDay(0), OnDay(1), Absent, Absent),
    Query(<<"a">>, "process", NoDate, OnDay(0), Absent, Absent) }

\* Messages of the errors thrown by the external services.
ProviderErrors == {"provider error"}

\* Two different messages of such errors, and of scanner signature names.
ErrorDetails == ProviderErrors \cup {"connect ECONNREFUSED 10.0.0.5:5432"}

\* ----------------------------------------------------------------- state
VARIABLES
  variant,        \* which server variant is deployed
  ENABLE_CLAMAV,  \* process.env.ENABLE_CLAMAV === 'true' ("clam" variant)
  documents,      \* the documents table: a set of rows, unique by id
  cloud,          \* the Cloudinary store: a set of blobs
  uploadDir,      \* UPLOAD_DIR of the filesystem variant: a set of files
  tempDir,        \* uploads_temp: the requests whose temp file exists
  audit_logs,     \* the audit_logs table: a sequence of rows
  uuidCount,      \* number of uuidv4() values handed out so far
  now,            \* the server clock: the number of requests received
  req,            \* per request: handler position, locals and response
  boot,           \* startup of the server: connectWithRetry / initDb
  client          \* the browser: React state, debounce timer, fetches

vars == <<variant, ENABLE_CLAMAV, documents, cloud, uploadDir, tempDir,
          audit_logs, uuidCount, now, req, boot, client>>

\* ------------------------------------------------------------ null values
NoUrl == [folder |-> "", name |-> 0, format |-> ""]
NoPid == [folder |-> "", name |-> 0]
NoStored == [name |-> 0, ext |-> <<>>]

IdleReq ==
  [kind |-> "idle", pc |-> "idle", file |-> NoFile, body |-> Body(<<>>, "", ""),
   id |-> 0, stored |-> {}, meta |-> {}, row |-> {}, calls |-> {}, outs |-> {},
   status |-> 0, error |-> "", sent |-> {}, query |-> NoFilters, list |-> <<>>,
   t0 |-> 0]

\* ---------------------------------------------------------------- helpers
RECURSIVE LastDot(_, _)
\* index of the last "." of name s at or before position i; 0 when none
LastDot(s, i) ==
  IF i = 0 THEN 0
  ELSE IF s[i] = "." THEN i ELSE LastDot(s, i - 1)

\* path.extname: from the last "." to the end; empty when there is no "."
\* or when the only "." is the first character.
extname(s) ==
  LET d == LastDot(s, Len(s))
  IN IF d <= 1 THEN <<>> ELSE SubSeq(s, d, Len(s))

\* The format Cloudinary appends to the delivery URL of a stored file.
FormatOf(m) == IF m = PDF THEN "pdf" ELSE IF m = PNG THEN "png" ELSE "raw"

\* The resource type under which cloudinary.uploader.upload files the blob:
\* resource_type 'raw' as given (index.js:307), or detected from the content
\* under resource_type 'auto' (PDFs and pictures are "image").
UploadResourceType(m) ==
  IF variant = "clam" THEN "raw"
  ELSE IF m \in {PDF, PNG} THEN "image" ELSE "raw"

\* Variation: the blob is named by a fixed name instead of the request's
\* unique temp file name, so a later upload replaces an earlier blob.
CloudBlob_FixedName(r, f) ==
  [public_id |-> [folder |-> FOLDER, name |-> 1], size |-> f.size,
   format |-> FormatOf(f.mimetype),
   resource_type |-> UploadResourceType(f.mimetype)]

\* cloudinary.uploader.upload of request r's file: the stored blob,
\* named after the request's (random, unique) temp file name.
CloudBlob(r, f) ==
  [public_id |-> [folder |-> FOLDER, name |-> r], size |-> f.size,
   format |-> FormatOf(f.mimetype),
   resource_type |-> UploadResourceType(f.mimetype)]

secure_url(b) ==
  [folder |-> b.public_id.folder, name |-> b.public_id.name, format |-> b.format]

\* doc.file_url.split('/').pop().split('.')[0], prefixed by the folder
PublicIdFromUrl(url) == [folder |-> FOLDER, name |-> url.name]

\* a || b on strings held as sequences / as TLA+ strings
OrSeq(a, b) == IF a = <<>> THEN b ELSE a

OrStr(a, b) == IF a = "" THEN b ELSE a

\* size || 0
OrZero(n) == IF n = 0 THEN 0 ELSE n

\* Whether the upload handler of the deployed variant scans the file.
Scanning == variant = "audit" \/ (variant = "clam" /\ ENABLE_CLAMAV)

\* ------------------------------------------------------------- responses
Respond(rq, st, err, body) ==
  [rq EXCEPT !.pc = "done", !.status = st, !.error = err, !.sent = body]

\* A rejection that no try/catch of the handler encloses: Express 4 leaves
\* the request unanswered, Express 5 hands it to the default error handler.
UnhandledOutcomes == {"hung", "500"}

Unhandled(rq, how, msg) ==
  IF how = "hung" THEN [rq EXCEPT !.pc = "hung"]
  ELSE Respond(rq, 500, msg, {})

\* History of a request: the external calls it issued and how each returned.
Call(rq, c) == [rq EXCEPT !.calls = @ \cup {c}]

Ret(rq, c, o) == [rq EXCEPT !.outs = @ \cup {<<c, o>>}]

\* The server process after its startup has finished: one connection
\* attempt, which succeeded, and initDb has created both tables.
Started ==
  [pc |-> "up", db |-> "up", attempts |-> 1, failures |-> 0, connects |-> 1,
   timers |-> 0, initRuns |-> 1, tables |-> {"documents", "audit_logs"}]

\* The state hooks of App when it mounts: useState('') / useState('all').
InitialFilters ==
  [search |-> <<>>, from |-> BadDate("empty"), to |-> BadDate("empty"),
   docTypeFilter |-> "all"]

\* No browser has the page open.
NoBrowser ==
  [app |-> "none", filters |-> InitialFilters, files |-> <<>>, crashed |-> FALSE,
   timer |-> {}, inflight |-> {}, edits |-> 0, fetches |-> 0, errors |-> 0]

Init ==
  /\ variant \in Variants
  /\ ENABLE_CLAMAV \in BOOLEAN
  /\ (variant # "clam" => ENABLE_CLAMAV = (variant = "audit"))
  /\ documents = {}
  /\ cloud = {}
  /\ uploadDir = {}
  /\ tempDir = {}
  /\ audit_logs = <<>>
  /\ uuidCount = 0
  /\ now = 0
  /\ req = [r \in Reqs |-> IdleReq]
  /\ boot = Started
  /\ client = NoBrowser

\* A request whose handler has neither responded nor died.
InFlight(rq) == rq.pc \notin {"idle", "done", "hung"}

\* Request slots are taken in order.
CanStart(r) ==
  /\ req[r].kind = "idle"
  /\ \A q \in Reqs : q < r => req[q].kind # "idle"

\* ================================================================ upload
\* The file written by multer.diskStorage in the filesystem variant.
DiskFile(f, n) ==
  [stored_name |-> [name |-> n, ext |-> extname(f.originalname)], size |-> f.size]

\* POST /api/upload arrives.  In the temp-file variants multer writes the
\* temp file and the handler runs up to its first await; in the other two
\* variants the multer storage engine starts storing the file.
UploadStart(r, in) ==
  LET rq == [IdleReq EXCEPT !.kind = "upload", !.file = in.file, !.body = in.body,
                            !.t0 = now]
      f == in.file
  IN
  /\ CanStart(r)
  /\ now' = now + 1
  /\ IF ~f.present
       THEN /\ req' = [req EXCEPT ![r] =
                 Respond(rq, 400, IF variant = "fs" THEN "No file" ELSE "No file uploaded", {})]
            /\ UNCHANGED tempDir
     ELSE IF variant \in {"pg", "clam"} /\ f.mimetype \notin allowedTypes
       THEN /\ tempDir' = (tempDir \cup {r}) \ {r}
            /\ req' = [req EXCEPT ![r] = Respond(rq, 400, "Invalid file type", {})]
     ELSE IF variant \in TempVariants
       THEN /\ tempDir' = tempDir \cup {r}
            /\ req' = [req EXCEPT ![r] =
                 IF Scanning THEN [Call(rq, "scan") EXCEPT !.pc = "scan"]
                 ELSE [Call(rq, "store") EXCEPT !.pc = "store"]]
     ELSE IF variant = "fs" /\ f.mimetype \notin allowedTypes
       THEN /\ req' = [req EXCEPT ![r] =
                 Respond(rq, 500, "Only PDF/DOC/DOCX allowed", {})]
            /\ UNCHANGED tempDir
     ELSE /\ req' = [req EXCEPT ![r] = [Call(rq, "store") EXCEPT !.pc = "multer"]]
          /\ UNCHANGED tempDir
  /\ UNCHANGED <<boot, client, variant, ENABLE_CLAMAV, documents, cloud, uploadDir, audit_logs,
                 uuidCount>>

\* Variation: size is taken from the length of the file's name.
MetaSqlite_NameLength(rq, id, t) ==
  LET f == rq.file
      st == CHOOSE x \in rq.stored : TRUE
  IN [id |-> id,
      original_name |-> f.originalname,
      file_url |-> IF variant = "cs" THEN secure_url(st) ELSE NoUrl,
      file_public_id |-> NoPid,
      stored_name |-> IF variant = "fs" THEN st.stored_name ELSE NoStored,
      mime_type |-> f.mimetype,
      size |-> Len(f.originalname),
      upload_date |-> t,
      title |-> OrSeq(rq.body.title, f.originalname),
      description |-> OrStr(rq.body.description, ""),
      doc_type |-> OrStr(rq.body.doc_type, "process")]

\* The meta object / row values built by the SQLite variants' handlers.
MetaSqlite(rq, id, t) ==
  LET f == rq.file
      st == CHOOSE x \in rq.stored : TRUE
  IN [id |-> id,
      original_name |-> f.originalname,
      file_url |-> IF variant = "cs" THEN secure_url(st) ELSE NoUrl,
      file_public_id |-> NoPid,
      stored_name |-> IF variant = "fs" THEN st.stored_name ELSE NoStored,
      mime_type |-> f.mimetype,
      size |-> IF variant = "cs" THEN OrZero(f.size) ELSE f.size,
      upload_date |-> t,
      title |-> OrSeq(rq.body.title, f.originalname),
      description |-> OrStr(rq.body.description, ""),
      doc_type |-> OrStr(rq.body.doc_type, "process")]

\* Variation: the id of the new row is taken from the number of rows.
MulterReturns_RowCountId(r, out, msg) ==
  LET rq == Ret(req[r], "store", out)
      f == rq.file
      n == IF variant = "fs" THEN uuidCount + 1 ELSE uuidCount
      st == IF variant = "fs" THEN DiskFile(f, n) ELSE CloudBlob(r, f)
      rs == [rq EXCEPT !.stored = {st}]
      id == Cardinality(documents) + 1
  IN
  /\ rq.kind = "upload" /\ rq.pc = "multer"
  /\ IF out = "ok"
       THEN /\ IF variant = "fs"
                 THEN uploadDir' = uploadDir \cup {st} /\ UNCHANGED cloud
               ELSE cloud' = cloud \cup {st} /\ UNCHANGED uploadDir
            /\ uuidCount' = n + 1
            /\ req' = [req EXCEPT ![r] =
                 [Call(rs, "insert") EXCEPT !.pc = "insert", !.id = id,
                    !.meta = {MetaSqlite(rs, id, now)}]]
     ELSE /\ req' = [req EXCEPT ![r] = Respond(rq, 500, msg, {})]
          /\ UNCHANGED <<cloud, uploadDir, uuidCount>>
  /\ UNCHANGED <<boot, client, variant, ENABLE_CLAMAV, documents, tempDir, audit_logs, now>>

\* The multer storage engine of the SQLite variants returns: the file is
\* in UPLOAD_DIR (diskStorage) or in the cloud (CloudinaryStorage) and the
\* handler runs up to its INSERT, or the engine's error ends the request.
MulterReturns(r, out, msg) ==
  LET rq == Ret(req[r], "store", out)
      f == rq.file
      n == IF variant = "fs" THEN uuidCount + 1 ELSE uuidCount
      st == IF variant = "fs" THEN DiskFile(f, n) ELSE CloudBlob(r, f)
      rs == [rq EXCEPT !.stored = {st}]
  IN
  /\ rq.kind = "upload" /\ rq.pc = "multer"
  /\ IF out = "ok"
       THEN /\ IF variant = "fs"
                 THEN uploadDir' = uploadDir \cup {st} /\ UNCHANGED cloud
               ELSE cloud' = cloud \cup {st} /\ UNCHANGED uploadDir
            /\ uuidCount' = n + 1
            /\ req' = [req EXCEPT ![r] =
                 [Call(rs, "insert") EXCEPT !.pc = "insert", !.id = n + 1,
                    !.meta = {MetaSqlite(rs, n + 1, now)}]]
     ELSE /\ req' = [req EXCEPT ![r] = Respond(rq, 500, msg, {})]
          /\ UNCHANGED <<cloud, uploadDir, uuidCount>>
  /\ UNCHANGED <<boot, client, variant, ENABLE_CLAMAV, documents, tempDir, audit_logs, now>>

\* catch (e) of the temp-file upload handlers:
\* if (fs.existsSync(path)) fs.unlinkSync(path); res.status(500)
Catch(rq, msg) == Respond(rq, 500, msg, {})

\* Variation: the catch block does not remove the temp file.
CatchTemp_Leak(r) == tempDir

CatchTemp(r) == tempDir \ {r}

\* Variation: a scanner failure is logged and the pipeline continues.
ScanReturns_FailOpen(r, out, msg) ==
  LET rq == Ret(req[r], "scan", out)
  IN
  /\ rq.kind = "upload" /\ rq.pc = "scan"
  /\ IF out \in {"clean", "fail"}
       THEN /\ req' = [req EXCEPT ![r] = [Call(rq, "store") EXCEPT !.pc = "store"]]
            /\ UNCHANGED tempDir
     ELSE IF variant = "audit"
       THEN /\ tempDir' = tempDir \ {r}
            /\ req' = [req EXCEPT ![r] = Respond(rq, 400,
                 "Security Alert: File rejected due to virus detection.", {})]
     ELSE /\ tempDir' = tempDir \ {r}
          /\ req' = [req EXCEPT ![r] = Respond(rq, 500, "Virus detected", {})]
  /\ UNCHANGED <<boot, client, variant, ENABLE_CLAMAV, documents, cloud, uploadDir, audit_logs,
                 uuidCount, now>>

\* clam.isInfected returns or throws.
ScanReturns(r, out, msg) ==
  LET rq == Ret(req[r], "scan", out)
  IN
  /\ rq.kind = "upload" /\ rq.pc = "scan"
  /\ IF out = "clean"
       THEN /\ req' = [req EXCEPT ![r] = [Call(rq, "store") EXCEPT !.pc = "store"]]
            /\ UNCHANGED tempDir
     ELSE IF out = "infected"
       THEN IF variant = "audit"
              THEN /\ tempDir' = tempDir \ {r}
                   /\ req' = [req EXCEPT ![r] = Respond(rq, 400,
                        "Security Alert: File rejected due to virus detection.", {})]
            ELSE /\ tempDir' = CatchTemp(r)
                 /\ req' = [req EXCEPT ![r] = Catch(rq, "Virus detected")]
     ELSE /\ tempDir' = CatchTemp(r)
          /\ req' = [req EXCEPT ![r] = Catch(rq, msg)]
  /\ UNCHANGED <<boot, client, variant, ENABLE_CLAMAV, documents, cloud, uploadDir, audit_logs,
                 uuidCount, now>>

\* The row values of the Postgres variants; upload_date is the column
\* default, assigned when the INSERT executes.
MetaPg(rq, id, b) ==
  LET f == rq.file
  IN [id |-> id,
      original_name |-> f.originalname,
      file_url |-> secure_url(b),
      file_public_id |-> IF variant = "audit" THEN NoPid ELSE b.public_id,
      stored_name |-> NoStored,
      mime_type |-> f.mimetype,
      size |-> f.size,
      upload_date |-> 0,
      title |-> OrSeq(rq.body.title, f.originalname),
      description |-> IF variant = "audit" THEN OrStr(rq.body.description, "") ELSE "",
      doc_type |-> OrStr(rq.body.doc_type, "process")]

\* Variation: a failed object-store upload is not treated as fatal and the
\* handler goes on to insert the row.
StoreReturns_NoAbort(r, out, msg) ==
  LET rq == Ret(req[r], "store", out)
      b == CloudBlob(r, rq.file)
  IN
  /\ rq.kind = "upload" /\ rq.pc = "store"
  /\ cloud' = IF out = "ok" THEN cloud \cup {b} ELSE cloud
  /\ tempDir' = tempDir \ {r}
  /\ uuidCount' = uuidCount + 1
  /\ req' = [req EXCEPT ![r] =
       [Call(rq, "insert") EXCEPT !.pc = "insert", !.stored = {b},
          !.id = uuidCount + 1, !.meta = {MetaPg(rq, uuidCount + 1, b)}]]
  /\ UNCHANGED <<boot, client, variant, ENABLE_CLAMAV, documents, uploadDir, audit_logs, now>>

\* cloudinary.uploader.upload returns or throws (temp-file variants).
StoreReturns(r, out, msg) ==
  LET rq == Ret(req[r], "store", out)
      b == CloudBlob(r, rq.file)
  IN
  /\ rq.kind = "upload" /\ rq.pc = "store"
  /\ IF out = "ok"
       THEN /\ cloud' = cloud \cup {b}
            /\ tempDir' = tempDir \ {r}
            /\ uuidCount' = uuidCount + 1
            /\ req' = [req EXCEPT ![r] =
                 [Call(rq, "insert") EXCEPT !.pc = "insert", !.stored = {b},
                    !.id = uuidCount + 1, !.meta = {MetaPg(rq, uuidCount + 1, b)}]]
     ELSE /\ tempDir' = CatchTemp(r)
          /\ req' = [req EXCEPT ![r] = Catch(rq, msg)]
          /\ UNCHANGED <<cloud, uuidCount>>
  /\ UNCHANGED <<boot, client, variant, ENABLE_CLAMAV, documents, uploadDir, audit_logs, now>>

\* The JSON object a handler sends for an uploaded document.
UploadBody(row) ==
  IF variant \in {"pg", "clam"}
    THEN [id |-> row.id, file_url |-> row.file_url]
  ELSE IF variant = "audit"
    THEN [id |-> row.id, original_name |-> row.original_name,
          file_url |-> row.file_url, mime_type |-> row.mime_type,
          size |-> row.size, title |-> row.title,
          description |-> row.description, doc_type |-> row.doc_type]
  ELSE IF variant = "fs"
    THEN [id |-> row.id, original_name |-> row.original_name,
          stored_name |-> row.stored_name, mime_type |-> row.mime_type,
          size |-> row.size, upload_date |-> row.upload_date, title |-> row.title,
          description |-> row.description, doc_type |-> row.doc_type]
  ELSE [id |-> row.id, original_name |-> row.original_name,
        file_url |-> row.file_url, mime_type |-> row.mime_type,
        size |-> row.size, upload_date |-> row.upload_date, title |-> row.title,
        description |-> row.description, doc_type |-> row.doc_type]

\* INSERT INTO documents returns or fails.
InsertReturns(r, out, msg) ==
  LET rq == Ret(req[r], "insert", out)
      m == CHOOSE x \in rq.meta : TRUE
      row == IF variant \in TempVariants THEN [m EXCEPT !.upload_date = now] ELSE m
  IN
  /\ rq.kind = "upload" /\ rq.pc = "insert"
  /\ IF out = "ok"
       THEN /\ documents' = documents \cup {row}
            /\ req' = [req EXCEPT ![r] =
                 IF variant = "audit"
                   THEN [Call(rq, "audit") EXCEPT !.pc = "audit", !.meta = {row}]
                 ELSE Respond([rq EXCEPT !.meta = {row}], 200, "", {UploadBody(row)})]
     ELSE /\ req' = [req EXCEPT ![r] = Catch(rq, msg)]
          /\ UNCHANGED documents
  /\ tempDir' = IF out = "ok" \/ variant \notin TempVariants THEN tempDir ELSE CatchTemp(r)
  /\ UNCHANGED <<boot, client, variant, ENABLE_CLAMAV, cloud, uploadDir, audit_logs, uuidCount, now>>

\* ================================================================ delete
\* Ids a client may name: every id given to a document so far (it learnt
\* it from an upload, a listing or an earlier request) and one that no
\* document ever had.
KnownIds ==
  {req[q].id : q \in {x \in Reqs : req[x].id # 0}}
    \cup {d.id : d \in documents}
    \cup {uuidCount + 1}

\* DELETE /api/documents/:id arrives; the handler issues its SELECT.
DeleteStart(r, id) ==
  /\ CanStart(r)
  /\ req' = [req EXCEPT ![r] =
       Call([IdleReq EXCEPT !.kind = "delete", !.pc = "select", !.id = id,
                            !.t0 = now], "select")]
  /\ now' = now + 1
  /\ UNCHANGED <<boot, client, variant, ENABLE_CLAMAV, documents, cloud, uploadDir, tempDir,
                 audit_logs, uuidCount>>

\* What the handlers do with a failed query or a failed blob deletion that
\* is outside every try/catch (index.js) or handled (the other variants).
QueryFailed(rq, how, msg) ==
  IF variant \in {"pg", "clam"} THEN Unhandled(rq, how, msg)
  ELSE Respond(rq, 500, msg, {})

\* The SELECT of the delete handler returns or fails.
DeleteSelectReturns(r, out, how, msg) ==
  LET rq == Ret(req[r], "select", out)
      rows == {d \in documents : d.id = rq.id}
  IN
  /\ rq.kind = "delete" /\ rq.pc = "select"
  /\ req' = [req EXCEPT ![r] =
       IF out # "ok" THEN QueryFailed(rq, how, msg)
       ELSE IF rows = {} THEN Respond(rq, 404, "Not found", {})
       ELSE [Call(rq, "destroy") EXCEPT !.pc = "destroy", !.row = rows]]
  /\ UNCHANGED <<boot, client, variant, ENABLE_CLAMAV, documents, cloud, uploadDir, tempDir,
                 audit_logs, uuidCount, now>>

\* The public id the delete handler hands to cloudinary.uploader.destroy.
DestroyTarget(row) ==
  IF variant \in {"pg", "clam"} THEN row.file_public_id
  ELSE PublicIdFromUrl(row.file_url)

\* The resource_type option of the destroy call: 'auto' (index.js:188,
\* part_004:129), 'raw' (index.js:372) or none, which means "image"
\* (part_003:251).
DestroyResourceType ==
  IF variant = "clam" THEN "raw"
  ELSE IF variant = "audit" THEN "image"
  ELSE "auto"

\* The blobs a destroy call removes: those of the given public id filed
\* under the given resource type.  'auto' is taken at its most favourable
\* and removes the blob whatever its type.
Destroyed(b, pid) ==
  /\ b.public_id = pid
  /\ DestroyResourceType = "auto" \/ b.resource_type = DestroyResourceType

\* cloudinary.uploader.destroy / fs.unlink returns or fails.
DeleteDestroyReturns(r, out, how, msg) ==
  LET rq == Ret(req[r], "destroy", out)
      row == CHOOSE x \in rq.row : TRUE
  IN
  /\ rq.kind = "delete" /\ rq.pc = "destroy"
  /\ IF out = "ok"
       THEN IF variant = "fs"
              THEN /\ uploadDir' = {f \in uploadDir : f.stored_name # row.stored_name}
                   /\ UNCHANGED cloud
            ELSE /\ cloud' = {b \in cloud : ~Destroyed(b, DestroyTarget(row))}
                 /\ UNCHANGED uploadDir
     ELSE UNCHANGED <<cloud, uploadDir>>
  /\ req' = [req EXCEPT ![r] =
       IF out # "ok" /\ variant \in {"pg", "clam"} THEN Unhandled(rq, how, msg)
       ELSE [Call(rq, "dbdelete") EXCEPT !.pc = "dbdelete"]]
  /\ UNCHANGED <<boot, client, variant, ENABLE_CLAMAV, documents, tempDir, audit_logs, uuidCount, now>>

\* Variation: the handler answers success without removing the row.
DeleteDbReturns_KeepRow(r, out, how, msg) ==
  LET rq == Ret(req[r], "dbdelete", out)
  IN
  /\ rq.kind = "delete" /\ rq.pc = "dbdelete"
  /\ req' = [req EXCEPT ![r] =
       IF out # "ok" THEN QueryFailed(rq, how, msg)
       ELSE IF variant = "audit" THEN [Call(rq, "audit") EXCEPT !.pc = "audit"]
       ELSE Respond(rq, 200, "", {[success |-> TRUE]})]
  /\ UNCHANGED <<boot, client, variant, ENABLE_CLAMAV, documents, cloud, uploadDir, tempDir,
                 audit_logs, uuidCount, now>>

\* DELETE FROM documents returns or fails.
DeleteDbReturns(r, out, how, msg) ==
  LET rq == Ret(req[r], "dbdelete", out)
  IN
  /\ rq.kind = "delete" /\ rq.pc = "dbdelete"
  /\ IF out = "ok"
       THEN /\ documents' = {d \in documents : d.id # rq.id}
            /\ req' = [req EXCEPT ![r] =
                 IF variant = "audit" THEN [Call(rq, "audit") EXCEPT !.pc = "audit"]
                 ELSE Respond(rq, 200, "", {[success |-> TRUE]})]
     ELSE /\ req' = [req EXCEPT ![r] = QueryFailed(rq, how, msg)]
          /\ UNCHANGED documents
  /\ UNCHANGED <<boot, client, variant, ENABLE_CLAMAV, cloud, uploadDir, tempDir, audit_logs,
                 uuidCount, now>>

\* =========================================================== rename / PUT
\* req.body as the handler finds it.  Only migrate.js parses a multipart
\* body (replaceUpload); the other variants parse JSON and find an empty
\* body when the client sends a file.
PutBody(in) ==
  IF in.file.present /\ variant # "fs" THEN Body(<<>>, "", "") ELSE in.body

\* PUT /api/documents/:id arrives.  part_004 has no such route and Express
\* answers 404; part_003 checks the title; migrate.js lets multer take the
\* replacement file first (the fileFilter rejects a disallowed type).
PutStart(r, id, in) ==
  LET rq == [IdleReq EXCEPT !.kind = "put", !.id = id, !.body = PutBody(in),
                            !.file = IF variant = "fs" THEN in.file ELSE NoFile,
                            !.t0 = now]
  IN
  /\ CanStart(r)
  /\ now' = now + 1
  /\ req' = [req EXCEPT ![r] =
       IF variant = "cs" THEN Respond(rq, 404, "Cannot PUT", {})
       ELSE IF variant = "audit" /\ rq.body.title = <<>>
         THEN Respond(rq, 400, "Title is required", {})
       ELSE IF variant # "fs" THEN [Call(rq, "update") EXCEPT !.pc = "update"]
       ELSE IF ~rq.file.present THEN [Call(rq, "select") EXCEPT !.pc = "select"]
       ELSE IF rq.file.mimetype \notin allowedTypes
         THEN Respond(rq, 400, "Only PDF/DOC/DOCX allowed", {})
       ELSE [Call(rq, "store") EXCEPT !.pc = "multer"]]
  /\ UNCHANGED <<boot, client, variant, ENABLE_CLAMAV, documents, cloud, uploadDir, tempDir,
                 audit_logs, uuidCount>>

\* migrate.js: replaceUpload has written the replacement file to UPLOAD_DIR,
\* or failed; the handler then issues its SELECT.
PutMulterReturns(r, out, msg) ==
  LET rq == Ret(req[r], "store", out)
      st == DiskFile(rq.file, uuidCount + 1)
  IN
  /\ rq.kind = "put" /\ rq.pc = "multer"
  /\ IF out = "ok"
       THEN /\ uploadDir' = uploadDir \cup {st}
            /\ uuidCount' = uuidCount + 1
            /\ req' = [req EXCEPT ![r] =
                 [Call([rq EXCEPT !.stored = {st}], "select") EXCEPT !.pc = "select"]]
     ELSE /\ req' = [req EXCEPT ![r] = Respond(rq, 400, msg, {})]
          /\ UNCHANGED <<uploadDir, uuidCount>>
  /\ UNCHANGED <<boot, client, variant, ENABLE_CLAMAV, documents, cloud, tempDir, audit_logs, now>>

\* migrate.js: newTitle / newDesc / newType, from the body or the row read.
PutMerged(rq, row) ==
  [row EXCEPT !.title = OrSeq(rq.body.title, row.title),
              !.description = OrStr(rq.body.description, row.description),
              !.doc_type = OrStr(rq.body.doc_type, row.doc_type)]

\* migrate.js: the SELECT * of the PUT handler returns or fails.
PutSelectReturns(r, out, msg) ==
  LET rq == Ret(req[r], "select", out)
      rows == {d \in documents : d.id = rq.id}
      rs == [rq EXCEPT !.row = rows, !.meta = {PutMerged(rq, d) : d \in rows}]
  IN
  /\ rq.kind = "put" /\ rq.pc = "select"
  /\ req' = [req EXCEPT ![r] =
       IF out # "ok" THEN Respond(rq, 500, msg, {})
       ELSE IF rows = {} THEN Respond(rq, 404, "Not found", {})
       ELSE IF rq.file.present THEN [Call(rs, "unlink") EXCEPT !.pc = "unlink"]
       ELSE [Call(rs, "update") EXCEPT !.pc = "update"]]
  /\ UNCHANGED <<boot, client, variant, ENABLE_CLAMAV, documents, cloud, uploadDir, tempDir,
                 audit_logs, uuidCount, now>>

\* migrate.js: fs.unlink of the old file calls back (its error is ignored);
\* the callback builds the UPDATE's values, upload_date from the clock.
PutUnlinkReturns(r, out) ==
  LET rq == Ret(req[r], "unlink", out)
      row == CHOOSE x \in rq.row : TRUE
      m == CHOOSE x \in rq.meta : TRUE
      st == CHOOSE x \in rq.stored : TRUE
      f == rq.file
  IN
  /\ rq.kind = "put" /\ rq.pc = "unlink"
  /\ uploadDir' = IF out = "ok"
                    THEN {x \in uploadDir : x.stored_name # row.stored_name}
                  ELSE uploadDir
  /\ req' = [req EXCEPT ![r] =
       [Call(rq, "update") EXCEPT !.pc = "update",
          !.meta = {[m EXCEPT !.stored_name = st.stored_name,
                              !.original_name = f.originalname,
                              !.mime_type = f.mimetype,
                              !.size = f.size,
                              !.upload_date = now]}]]
  /\ UNCHANGED <<boot, client, variant, ENABLE_CLAMAV, documents, cloud, tempDir, audit_logs,
                 uuidCount, now>>

\* The row that the UPDATE of request rq leaves in place of row d.
PutApply(rq, d) ==
  LET m == CHOOSE x \in rq.meta : TRUE
  IN IF d.id # rq.id THEN d
     ELSE IF variant # "fs" THEN [d EXCEPT !.title = rq.body.title]
     ELSE IF rq.file.present
       THEN [d EXCEPT !.stored_name = m.stored_name,
                      !.original_name = m.original_name,
                      !.mime_type = m.mime_type, !.size = m.size,
                      !.upload_date = m.upload_date, !.title = m.title,
                      !.description = m.description, !.doc_type = m.doc_type]
     ELSE [d EXCEPT !.title = m.title, !.description = m.description,
                    !.doc_type = m.doc_type]

\* Variation: the Postgres variants do not look at the number of rows
\* updated either.
PutUpdateReturns_NoRowCount(r, out, how, msg) ==
  LET rq == Ret(req[r], "update", out)
      rows == {PutApply(rq, d) : d \in {x \in documents : x.id = rq.id}}
  IN
  /\ rq.kind = "put" /\ rq.pc = "update"
  /\ IF out # "ok"
       THEN /\ req' = [req EXCEPT ![r] = QueryFailed(rq, how, msg)]
            /\ UNCHANGED documents
     ELSE /\ documents' = {PutApply(rq, d) : d \in documents}
          /\ req' = [req EXCEPT ![r] =
               IF variant = "fs" THEN Respond(rq, 200, "", {[success |-> TRUE]})
               ELSE IF variant = "audit"
                 THEN [Call([rq EXCEPT !.meta = rows], "audit") EXCEPT !.pc = "audit"]
               ELSE Respond(rq, 200, "", rows)]
  /\ UNCHANGED <<boot, client, variant, ENABLE_CLAMAV, cloud, uploadDir, tempDir, audit_logs,
                 uuidCount, now>>

\* The UPDATE of the PUT handler returns or fails.  The Postgres variants
\* answer 404 when no row was updated and send the updated row otherwise;
\* migrate.js does not look at the number of rows changed.
PutUpdateReturns(r, out, how, msg) ==
  LET rq == Ret(req[r], "update", out)
      rows == {PutApply(rq, d) : d \in {x \in documents : x.id = rq.id}}
  IN
  /\ rq.kind = "put" /\ rq.pc = "update"
  /\ IF out # "ok"
       THEN /\ req' = [req EXCEPT ![r] = QueryFailed(rq, how, msg)]
            /\ UNCHANGED documents
     ELSE /\ documents' = {PutApply(rq, d) : d \in documents}
          /\ req' = [req EXCEPT ![r] =
               IF variant = "fs" THEN Respond(rq, 200, "", {[success |-> TRUE]})
               ELSE IF rows = {} THEN Respond(rq, 404, "Not found", {})
               ELSE IF variant = "audit"
                 THEN [Call([rq EXCEPT !.meta = rows], "audit") EXCEPT !.pc = "audit"]
               ELSE Respond(rq, 200, "", rows)]
  /\ UNCHANGED <<boot, client, variant, ENABLE_CLAMAV, cloud, uploadDir, tempDir, audit_logs,
                 uuidCount, now>>

\* =============================================================== listing
\* limit = 100 of the handlers that paginate.
DEFAULT_LIMIT == 100

\* The clock ticks TicksPerDay times a day; a date parameter names a day.
TicksPerDay == 2

Midnight(day) == day * TicksPerDay

Day(t) == t \div TicksPerDay

\* Case folding of ILIKE and of SQLite's LIKE.
Lower(c) ==
  CASE c = "A" -> "a"
    [] c = "N" -> "n"
    [] c = "P" -> "p"
    [] c = "R" -> "r"
    [] OTHER -> c

\* `%${search}%`
LikePattern(s) == <<"%">> \o s \o <<"%">>

RECURSIVE LikeMatch(_, _)
\* text t matches LIKE pattern p: "%" stands for any run of characters,
\* "_" for any one character, any other character for itself in either case
LikeMatch(p, t) ==
  IF p = <<>> THEN t = <<>>
  ELSE IF Head(p) = "%"
    THEN LikeMatch(Tail(p), t) \/ (t # <<>> /\ LikeMatch(p, Tail(t)))
  ELSE /\ t # <<>>
       /\ Head(p) = "_" \/ Lower(Head(p)) = Lower(Head(t))
       /\ LikeMatch(Tail(p), Tail(t))

\* The search condition; index.js 338-343 has none.
SearchHit(d, q) ==
  \/ variant = "clam"
  \/ q.search = <<>>
  \/ LikeMatch(LikePattern(q.search), d.title)
  \/ LikeMatch(LikePattern(q.search), d.original_name)

\* The doc_type condition.
TypeHit(d, q) ==
  IF variant = "clam" THEN TRUE
  ELSE IF variant \in {"pg", "audit"}
    THEN q.type \in {"", "all"} \/ d.doc_type = q.type
  ELSE q.type \notin {"process", "work"} \/ d.doc_type = q.type

\* The upload_date >= from condition: a timestamp comparison in Postgres,
\* a comparison of days in SQLite, where date(?) of a text that is not a
\* date is NULL and no row satisfies the comparison.  Every handler drops
\* an empty parameter; index.js 134 also drops whitespace.
FromHit(d, p) ==
  IF variant = "clam" \/ p.kind \in {"absent", "empty"} THEN TRUE
  ELSE IF variant \in {"pg", "audit"}
    THEN p.kind = "day" => d.upload_date >= Midnight(p.day)
  ELSE p.kind = "day" /\ Day(d.upload_date) >= p.day

\* The upload_date <= to condition.
ToHit(d, p) ==
  IF variant = "clam" \/ p.kind \in {"absent", "empty"} THEN TRUE
  ELSE IF variant \in {"pg", "audit"}
    THEN p.kind = "day" => d.upload_date <= Midnight(p.day)
  ELSE p.kind = "day" /\ Day(d.upload_date) <= p.day

\* A date parameter that Postgres cannot cast to a timestamp: index.js
\* drops a parameter of whitespace, part_003 passes it on.
BadTimestamp(p) ==
  \/ variant = "pg" /\ p.kind = "malformed"
  \/ variant = "audit" /\ p.kind \in {"blank", "malformed"}

ListQueryFails(q) == BadTimestamp(q.from) \/ BadTimestamp(q.to)

\* d comes before e under ORDER BY upload_date DESC; rows of equal
\* upload_date come in an order the database chooses (up).
Before(d, e, up) ==
  \/ d.upload_date > e.upload_date
  \/ d.upload_date = e.upload_date /\ (IF up THEN d.id <= e.id ELSE d.id >= e.id)

\* The rows of S in that order: each row at the position that the number
\* of rows before it gives.
SortDesc(S, up) ==
  LET placed == {<<Cardinality({e \in S : Before(e, d, up)}), d>> : d \in S}
  IN [i \in 1..Cardinality(S) |-> (CHOOSE p \in placed : p[1] = i)[2]]

\* Variation: the page starts after the first row.
Page_SkipFirst(s, q) ==
  LET limit == IF q.limit = Absent THEN DEFAULT_LIMIT ELSE q.limit
      offset == IF q.offset = Absent THEN 1 ELSE q.offset
      last == IF offset + limit < Len(s) THEN offset + limit ELSE Len(s)
  IN IF variant \in {"pg", "clam"} THEN s ELSE SubSeq(s, offset + 1, last)

\* LIMIT ? OFFSET ? of the handlers that paginate.
Page(s, q) ==
  LET limit == IF q.limit = Absent THEN DEFAULT_LIMIT ELSE q.limit
      offset == IF q.offset = Absent THEN 0 ELSE q.offset
      last == IF offset + limit < Len(s) THEN offset + limit ELSE Len(s)
  IN IF variant \in {"pg", "clam"} THEN s ELSE SubSeq(s, offset + 1, last)

\* The columns of a listed row: migrate.js does not select stored_name.
ListBody(d) == IF variant = "fs" THEN [d EXCEPT !.stored_name = NoStored] ELSE d

\* The rows the list query returns.
ListResult(q, up) ==
  LET hits == {d \in documents : /\ SearchHit(d, q) /\ TypeHit(d, q)
                                 /\ FromHit(d, q.from) /\ ToHit(d, q.to)}
      s == Page(SortDesc(hits, up), q)
  IN [i \in 1..Len(s) |-> ListBody(s[i])]

\* GET /api/documents: the handler builds its query, the query runs and the
\* handler sends the rows.  Only index.js 338-343 has no try/catch.
ListDocs(r, q, out, how, msg, up) ==
  LET o == IF ListQueryFails(q) THEN "fail" ELSE out
      rq == Ret(Call([IdleReq EXCEPT !.kind = "list", !.query = q, !.t0 = now],
                     "select"), "select", o)
  IN
  /\ CanStart(r)
  /\ now' = now + 1
  /\ req' = [req EXCEPT ![r] =
       IF o # "ok"
         THEN IF variant = "clam" THEN Unhandled(rq, how, msg)
              ELSE Respond(rq, 500, msg, {})
       ELSE [Respond(rq, 200, "", {}) EXCEPT !.list = ListResult(q, up)]]
  /\ UNCHANGED <<boot, client, variant, ENABLE_CLAMAV, documents, cloud, uploadDir, tempDir,
                 audit_logs, uuidCount>>

\* ============================================================== download
\* GET /api/documents/:id/download arrives.  Only migrate.js has the route
\* and issues its SELECT; in the other variants no route matches and
\* Express answers 404.
DownloadStart(r, id) ==
  LET rq == [IdleReq EXCEPT !.kind = "download", !.id = id, !.t0 = now]
  IN
  /\ CanStart(r)
  /\ now' = now + 1
  /\ req' = [req EXCEPT ![r] =
       IF variant # "fs" THEN Respond(rq, 404, "Cannot GET", {})
       ELSE [Call(rq, "select") EXCEPT !.pc = "select"]]
  /\ UNCHANGED <<boot, client, variant, ENABLE_CLAMAV, documents, cloud, uploadDir, tempDir,
                 audit_logs, uuidCount>>

\* fs.existsSync(filePath) for the file of a row.
existsSync(row) == \E f \in uploadDir : f.stored_name = row.stored_name

\* Variation: the handler does not look for the file before streaming it.
DownloadSelectReturns_NoExistsCheck(r, out, msg) ==
  LET rq == Ret(req[r], "select", out)
      rows == {d \in documents : d.id = rq.id}
  IN
  /\ rq.kind = "download" /\ rq.pc = "select"
  /\ req' = [req EXCEPT ![r] =
       IF out # "ok" THEN Respond(rq, 500, msg, {})
       ELSE IF rows = {} THEN Respond(rq, 404, "Not found", {})
       ELSE [Call(rq, "stream") EXCEPT !.pc = "stream", !.row = rows]]
  /\ UNCHANGED <<boot, client, variant, ENABLE_CLAMAV, documents, cloud, uploadDir, tempDir,
                 audit_logs, uuidCount, now>>

\* The SELECT of the download handler returns or fails; the callback runs
\* up to createReadStream(filePath).pipe(res).
DownloadSelectReturns(r, out, msg) ==
  LET rq == Ret(req[r], "select", out)
      rows == {d \in documents : d.id = rq.id}
  IN
  /\ rq.kind = "download" /\ rq.pc = "select"
  /\ req' = [req EXCEPT ![r] =
       IF out # "ok" THEN Respond(rq, 500, msg, {})
       ELSE IF rows = {} THEN Respond(rq, 404, "Not found", {})
       ELSE IF ~existsSync(CHOOSE x \in rows : TRUE)
         THEN Respond(rq, 404, "File missing", {})
       ELSE [Call(rq, "stream") EXCEPT !.pc = "stream", !.row = rows]]
  /\ UNCHANGED <<boot, client, variant, ENABLE_CLAMAV, documents, cloud, uploadDir, tempDir,
                 audit_logs, uuidCount, now>>

\* The read stream opens the file and pipes it to the response.  When the
\* file is gone by then the stream emits 'error', which has no listener:
\* the exception is uncaught and the request is never answered.
DownloadStreamOpens(r) ==
  LET rq == req[r]
      row == CHOOSE x \in rq.row : TRUE
      files == {f \in uploadDir : f.stored_name = row.stored_name}
  IN
  /\ rq.kind = "download" /\ rq.pc = "stream"
  /\ req' = [req EXCEPT ![r] =
       IF files = {} THEN [Ret(rq, "stream", "fail") EXCEPT !.pc = "hung"]
       ELSE Respond(Ret(rq, "stream", "ok"), 200, "", files)]
  /\ UNCHANGED <<boot, client, variant, ENABLE_CLAMAV, documents, cloud, uploadDir, tempDir,
                 audit_logs, uuidCount, now>>

\* =============================================================== startup
\* part_003 is loaded: connectWithRetry() is called at the end of the
\* database setup and its pool.connect() is pending.  The database may be
\* up or still starting, and no table exists.
Booting ==
  [pc |-> "connecting", db |-> "down", attempts |-> 1, failures |-> 0,
   connects |-> 0, timers |-> 0, initRuns |-> 0, tables |-> {}]

\* The database container finishes starting, or stops.
DbChanges ==
  /\ boot.pc # "up"
  /\ boot' = [boot EXCEPT !.db = IF @ = "up" THEN "down" ELSE "up"]
  /\ UNCHANGED <<client, variant, ENABLE_CLAMAV, documents, cloud, uploadDir, tempDir,
                 audit_logs, uuidCount, now, req>>

\* pool.connect() settles.  Resolved: the promise of .then(() => initDb())
\* is ready to run.  Rejected: the .catch logs and calls
\* setTimeout(connectWithRetry, 5000).  The database is down for at most
\* MaxFailures attempts.
ConnectReturns(out) ==
  /\ boot.pc = "connecting"
  /\ IF out = "ok"
       THEN /\ boot.db = "up"
            /\ boot' = [boot EXCEPT !.pc = "connected", !.connects = @ + 1]
     ELSE /\ boot.failures < MaxFailures
          /\ boot' = [boot EXCEPT !.pc = "waiting", !.failures = @ + 1,
                                  !.timers = @ + 1]
  /\ UNCHANGED <<client, variant, ENABLE_CLAMAV, documents, cloud, uploadDir, tempDir,
                 audit_logs, uuidCount, now, req>>

\* The timer of setTimeout(connectWithRetry, 5000) fires: connectWithRetry
\* calls pool.connect() again.
RetryTimerFires ==
  /\ boot.pc = "waiting"
  /\ boot' = [boot EXCEPT !.pc = "connecting", !.attempts = @ + 1]
  /\ UNCHANGED <<client, variant, ENABLE_CLAMAV, documents, cloud, uploadDir, tempDir,
                 audit_logs, uuidCount, now, req>>

\* The .then callback runs: initDb() is called and issues its first
\* CREATE TABLE.
InitDbStarts ==
  /\ boot.pc = "connected"
  /\ boot' = [boot EXCEPT !.pc = "createDocuments", !.initRuns = @ + 1]
  /\ UNCHANGED <<client, variant, ENABLE_CLAMAV, documents, cloud, uploadDir, tempDir,
                 audit_logs, uuidCount, now, req>>

\* Variation: initDb has no try/catch, so the error of a CREATE TABLE
\* reaches the .catch of connectWithRetry, which schedules a new attempt.
InitDbQueryReturns_Uncaught(out) ==
  /\ boot.pc \in {"createDocuments", "createAuditLogs"}
  /\ boot' =
       IF out # "ok" THEN [boot EXCEPT !.pc = "waiting", !.timers = @ + 1]
       ELSE IF boot.pc = "createDocuments"
         THEN [boot EXCEPT !.pc = "createAuditLogs", !.tables = @ \cup {"documents"}]
       ELSE [boot EXCEPT !.pc = "up", !.tables = @ \cup {"audit_logs"}]
  /\ UNCHANGED <<client, variant, ENABLE_CLAMAV, documents, cloud, uploadDir, tempDir,
                 audit_logs, uuidCount, now, req>>

\* A CREATE TABLE IF NOT EXISTS of initDb returns or fails; the catch of
\* initDb logs the error and initDb returns.
InitDbQueryReturns(out) ==
  /\ boot.pc \in {"createDocuments", "createAuditLogs"}
  /\ boot' =
       IF out # "ok" THEN [boot EXCEPT !.pc = "up"]
       ELSE IF boot.pc = "createDocuments"
         THEN [boot EXCEPT !.pc = "createAuditLogs", !.tables = @ \cup {"documents"}]
       ELSE [boot EXCEPT !.pc = "up", !.tables = @ \cup {"audit_logs"}]
  /\ UNCHANGED <<client, variant, ENABLE_CLAMAV, documents, cloud, uploadDir, tempDir,
                 audit_logs, uuidCount, now, req>>

\* ================================================================ client
\* The three versions of the client's App component.
Apps == {"App.jsx", "part_001", "part_000"}

\* Filter values the user chooses: the type select set to all, work or
\* process.
FilterChoices ==
  { InitialFilters,
    [InitialFilters EXCEPT !.docTypeFilter = "work"],
    [InitialFilters EXCEPT !.docTypeFilter = "process"] }

\* A date field as fetchList puts it in the query string: not at all when
\* it is '' and, in part_001, when it is whitespace.
DateParam(app, p) ==
  IF p.kind = "empty" \/ (app = "part_001" /\ p.kind = "blank") THEN NoDate ELSE p

\* The query string that fetchList builds from the filters of its render;
\* part_000 sends the type "all" too.
ClientQuery(app, f) ==
  Query(f.search,
        IF app # "part_000" /\ f.docTypeFilter = "all" THEN "" ELSE f.docTypeFilter,
        DateParam(app, f.from), DateParam(app, f.to), Absent, Absent)

\* A call of fetchList: its number and the filters of the render whose
\* closure it is.
Fetch(n, f, e) == [n |-> n, filters |-> f, edit |-> e]

\* App has mounted: the first effect has called fetchList() and the second
\* has set the 300 ms timer.
Mounted(app) ==
  [app |-> app, filters |-> InitialFilters, files |-> <<>>, crashed |-> FALSE,
   timer |-> {InitialFilters}, inflight |-> {Fetch(1, InitialFilters, 0)},
   edits |-> 0, fetches |-> 1, errors |-> 0]

\* The user changes a filter: App renders again, the cleanup of the effect
\* clears the pending timer and the effect sets a new one.
ChangeFilter(f) ==
  /\ client.app \in Apps /\ ~client.crashed
  /\ client.edits < MaxEdits
  /\ f # client.filters
  /\ client' = [client EXCEPT !.filters = f, !.timer = {f}, !.edits = @ + 1]
  /\ UNCHANGED <<boot, variant, ENABLE_CLAMAV, documents, cloud, uploadDir, tempDir,
                 audit_logs, uuidCount, now, req>>

\* The 300 ms timer fires: fetchList of that render sends its request.
DebounceFires(f) ==
  /\ f \in client.timer /\ ~client.crashed
  /\ client' = [client EXCEPT
       !.timer = @ \ {f},
       !.inflight = @ \cup {Fetch(client.fetches + 1, f, client.edits)},
       !.fetches = @ + 1]
  /\ UNCHANGED <<boot, variant, ENABLE_CLAMAV, documents, cloud, uploadDir, tempDir,
                 audit_logs, uuidCount, now, req>>

\* The response of a list request arrives, in whatever order the network
\* and the server deliver it, and fetchList continues after its awaits:
\* setFiles(data) of a 200; for a 500, App.jsx and part_001 throw and
\* setFiles([]), part_000 sets the error object and the next render
\* fails in files.map.
ResponseArrives(x, out, up) ==
  LET q == ClientQuery(client.app, x.filters)
      ok == out = "ok" /\ ~ListQueryFails(q)
  IN
  /\ x \in client.inflight /\ ~client.crashed
  /\ client' = [client EXCEPT
       !.inflight = @ \ {x},
       !.files = IF ok THEN ListResult(q, up) ELSE <<>>,
       !.crashed = ~ok /\ client.app = "part_000",
       !.errors = IF ok THEN @ ELSE @ + 1]
  /\ UNCHANGED <<boot, variant, ENABLE_CLAMAV, documents, cloud, uploadDir, tempDir,
                 audit_logs, uuidCount, now, req>>

\* ================================================================= audit
AuditAction(rq) ==
  IF rq.kind = "upload" THEN "UPLOAD"
  ELSE IF rq.kind = "put" THEN "RENAME" ELSE "DELETE"

\* Variation: logAction lets the error of its INSERT through to the catch
\* of the handler.
logAction_Rethrow(r, out) ==
  LET rq == Ret(req[r], "audit", out)
  IN
  /\ rq.pc = "audit"
  /\ audit_logs' = IF out = "ok"
                     THEN Append(audit_logs, [document_id |-> rq.id, action |-> AuditAction(rq)])
                   ELSE audit_logs
  /\ req' = [req EXCEPT ![r] =
       IF out # "ok" THEN Respond(rq, 500, "audit", {})
       ELSE IF rq.kind = "upload"
         THEN Respond(rq, 200, "", {UploadBody(CHOOSE x \in rq.meta : TRUE)})
       ELSE IF rq.kind = "put" THEN Respond(rq, 200, "", rq.meta)
       ELSE Respond(rq, 200, "", {[success |-> TRUE]})]
  /\ UNCHANGED <<boot, client, variant, ENABLE_CLAMAV, documents, cloud, uploadDir, tempDir,
                 uuidCount, now>>

\* logAction: the audit INSERT returns or fails (caught and logged); the
\* handler then sends its success response.
logAction(r, out) ==
  LET rq == Ret(req[r], "audit", out)
  IN
  /\ rq.pc = "audit"
  /\ audit_logs' = IF out = "ok"
                     THEN Append(audit_logs, [document_id |-> rq.id, action |-> AuditAction(rq)])
                   ELSE audit_logs
  /\ req' = [req EXCEPT ![r] =
       IF rq.kind = "upload"
         THEN Respond(rq, 200, "", {UploadBody(CHOOSE x \in rq.meta : TRUE)})
       ELSE IF rq.kind = "put" THEN Respond(rq, 200, "", rq.meta)
       ELSE Respond(rq, 200, "", {[success |-> TRUE]})]
  /\ UNCHANGED <<boot, client, variant, ENABLE_CLAMAV, documents, cloud, uploadDir, tempDir,
                 uuidCount, now>>

\* ========================================================= specification
Outcomes == {"ok", "fail"}

ScanOutcomes == {"clean", "infected", "fail"}

Next ==
  \/ \E r \in Reqs, in \in UploadInputs : UploadStart(r, in)
  \/ \E r \in Reqs, out \in Outcomes, msg \in ProviderErrors : MulterReturns(r, out, msg)
  \/ \E r \in Reqs, out \in ScanOutcomes, msg \in ProviderErrors : ScanReturns(r, out, msg)
  \/ \E r \in Reqs, out \in Outcomes, msg \in ProviderErrors : StoreReturns(r, out, msg)
  \/ \E r \in Reqs, out \in Outcomes, msg \in ProviderErrors : InsertReturns(r, out, msg)
  \/ \E r \in Reqs, id \in KnownIds : DeleteStart(r, id)
  \/ \E r \in Reqs, out \in Outcomes, how \in UnhandledOutcomes, msg \in ProviderErrors :
       DeleteSelectReturns(r, out, how, msg)
  \/ \E r \in Reqs, out \in Outcomes, how \in UnhandledOutcomes, msg \in ProviderErrors :
       DeleteDestroyReturns(r, out, how, msg)
  \/ \E r \in Reqs, out \in Outcomes, how \in UnhandledOutcomes, msg \in ProviderErrors :
       DeleteDbReturns(r, out, how, msg)
  \/ \E r \in Reqs, out \in Outcomes : logAction(r, out)

Spec == Init /\ [][Next]_vars

\* A store that holds documents when the server starts: the tables, the
\* blobs and the upload directory outlive the process.  The i-th stored
\* document is the one an upload of SeedInput left, at time i.
SeedFile == File(<<"a", ".", "p">>, PDF, 2)

SeedBody == Body(<<"R">>, "d", "work")

SeedBlob(i) == CloudBlob(0 - i, SeedFile)

SeedDisk(i) == DiskFile(SeedFile, 2 * i - 1)

SeedRow(i) ==
  LET rq == [IdleReq EXCEPT !.file = SeedFile, !.body = SeedBody,
               !.stored = {IF variant = "fs" THEN SeedDisk(i) ELSE SeedBlob(i)}]
  IN IF variant \in TempVariants
       THEN [MetaPg(rq, i, SeedBlob(i)) EXCEPT !.upload_date = i]
     ELSE MetaSqlite(rq, IF variant = "fs" THEN 2 * i ELSE i, i)

Stored(n) ==
  /\ variant \in Variants
  /\ ENABLE_CLAMAV \in BOOLEAN
  /\ (variant # "clam" => ENABLE_CLAMAV = (variant = "audit"))
  /\ documents = {SeedRow(i) : i \in 1..n}
  /\ cloud = IF variant = "fs" THEN {} ELSE {SeedBlob(i) : i \in 1..n}
  /\ uploadDir = IF variant = "fs" THEN {SeedDisk(i) : i \in 1..n} ELSE {}
  /\ tempDir = {}
  /\ audit_logs = IF variant = "audit"
                    THEN [i \in 1..n |-> [document_id |-> i, action |-> "UPLOAD"]]
                  ELSE <<>>
  /\ uuidCount = IF variant = "fs" THEN 2 * n ELSE n
  /\ now = n
  /\ req = [r \in Reqs |-> IdleReq]
  /\ boot = Started
  /\ client = NoBrowser

InitStored == Stored(1)

NextStored ==
  \/ \E r \in Reqs, id \in KnownIds : DeleteStart(r, id)
  \/ \E r \in Reqs, out \in Outcomes, how \in UnhandledOutcomes, msg \in ProviderErrors :
       DeleteSelectReturns(r, out, how, msg)
  \/ \E r \in Reqs, out \in Outcomes, how \in UnhandledOutcomes, msg \in ProviderErrors :
       DeleteDestroyReturns(r, out, how, msg)
  \/ \E r \in Reqs, out \in Outcomes, how \in UnhandledOutcomes, msg \in ProviderErrors :
       DeleteDbReturns(r, out, how, msg)
  \/ \E r \in Reqs, out \in Outcomes : logAction(r, out)
  \/ \E r \in Reqs, id \in KnownIds, in \in PutInputs : PutStart(r, id, in)
  \/ \E r \in Reqs, out \in Outcomes, msg \in ProviderErrors : PutSelectReturns(r, out, msg)
  \/ \E r \in Reqs, out \in Outcomes, how \in UnhandledOutcomes, msg \in ProviderErrors :
       PutUpdateReturns(r, out, how, msg)
  \/ \E r \in Reqs, q \in ListInputs, out \in Outcomes, how \in UnhandledOutcomes,
         msg \in ProviderErrors, up \in BOOLEAN : ListDocs(r, q, out, how, msg, up)

SpecStored == InitStored /\ [][NextStored]_vars

\* A store that holds one document more than a default page of the
\* listing; clients upload non-empty files of an allowed type and list.
InitFull == Stored(DEFAULT_LIMIT + 1)

ValidUploads ==
  {in \in UploadInputs : in.file.mimetype \in allowedTypes /\ in.file.size > 0}

NextFull ==
  \/ \E r \in Reqs, in \in ValidUploads : UploadStart(r, in)
  \/ \E r \in Reqs, out \in Outcomes, msg \in ProviderErrors : MulterReturns(r, out, msg)
  \/ \E r \in Reqs, out \in ScanOutcomes, msg \in ProviderErrors : ScanReturns(r, out, msg)
  \/ \E r \in Reqs, out \in Outcomes, msg \in ProviderErrors : StoreReturns(r, out, msg)
  \/ \E r \in Reqs, out \in Outcomes, msg \in ProviderErrors : InsertReturns(r, out, msg)
  \/ \E r \in Reqs, out \in Outcomes : logAction(r, out)
  \/ \E r \in Reqs, out \in Outcomes, how \in UnhandledOutcomes, msg \in ProviderErrors,
         up \in BOOLEAN : ListDocs(r, NoFilters, out, how, msg, up)

SpecFull == InitFull /\ [][NextFull]_vars

\* A store that holds one document; clients upload non-empty files of an
\* allowed type and delete.
NextChurn ==
  \/ \E r \in Reqs, in \in ValidUploads : UploadStart(r, in)
  \/ \E r \in Reqs, out \in Outcomes, msg \in ProviderErrors : MulterReturns(r, out, msg)
  \/ \E r \in Reqs, out \in ScanOutcomes, msg \in ProviderErrors : ScanReturns(r, out, msg)
  \/ \E r \in Reqs, out \in Outcomes, msg \in ProviderErrors : StoreReturns(r, out, msg)
  \/ \E r \in Reqs, out \in Outcomes, msg \in ProviderErrors : InsertReturns(r, out, msg)
  \/ \E r \in Reqs, id \in KnownIds : DeleteStart(r, id)
  \/ \E r \in Reqs, out \in Outcomes, how \in UnhandledOutcomes, msg \in ProviderErrors :
       DeleteSelectReturns(r, out, how, msg)
  \/ \E r \in Reqs, out \in Outcomes, how \in UnhandledOutcomes, msg \in ProviderErrors :
       DeleteDestroyReturns(r, out, how, msg)
  \/ \E r \in Reqs, out \in Outcomes, how \in UnhandledOutcomes, msg \in ProviderErrors :
       DeleteDbReturns(r, out, how, msg)
  \/ \E r \in Reqs, out \in Outcomes : logAction(r, out)

SpecChurn == InitStored /\ [][NextChurn]_vars

\* A store that holds one document; clients download and delete.
NextDownload ==
  \/ \E r \in Reqs, id \in KnownIds : DownloadStart(r, id)
  \/ \E r \in Reqs, out \in Outcomes, msg \in ProviderErrors :
       DownloadSelectReturns(r, out, msg)
  \/ \E r \in Reqs : DownloadStreamOpens(r)
  \/ \E r \in Reqs, id \in KnownIds : DeleteStart(r, id)
  \/ \E r \in Reqs, out \in Outcomes, how \in UnhandledOutcomes, msg \in ProviderErrors :
       DeleteSelectReturns(r, out, how, msg)
  \/ \E r \in Reqs, out \in Outcomes, how \in UnhandledOutcomes, msg \in ProviderErrors :
       DeleteDestroyReturns(r, out, how, msg)
  \/ \E r \in Reqs, out \in Outcomes, how \in UnhandledOutcomes, msg \in ProviderErrors :
       DeleteDbReturns(r, out, how, msg)
  \/ \E r \in Reqs, out \in Outcomes : logAction(r, out)

SpecDownload == InitStored /\ [][NextDownload]_vars

\* An empty store; clients upload non-empty files of an allowed type and
\* the external services fail with either message.
NextDetail ==
  \/ \E r \in Reqs, in \in ValidUploads : UploadStart(r, in)
  \/ \E r \in Reqs, out \in Outcomes, msg \in ErrorDetails : MulterReturns(r, out, msg)
  \/ \E r \in Reqs, out \in ScanOutcomes, msg \in ErrorDetails : ScanReturns(r, out, msg)
  \/ \E r \in Reqs, out \in Outcomes, msg \in ErrorDetails : StoreReturns(r, out, msg)
  \/ \E r \in Reqs, out \in Outcomes, msg \in ErrorDetails : InsertReturns(r, out, msg)
  \/ \E r \in Reqs, out \in Outcomes : logAction(r, out)

SpecDetail == Init /\ [][NextDetail]_vars

\* A store that holds one document; clients send PUT requests that carry a
\* replacement file.
NextReplace ==
  \/ \E r \in Reqs, id \in KnownIds, in \in ReplaceInputs : PutStart(r, id, in)
  \/ \E r \in Reqs, out \in Outcomes, msg \in ProviderErrors : PutMulterReturns(r, out, msg)
  \/ \E r \in Reqs, out \in Outcomes, msg \in ProviderErrors : PutSelectReturns(r, out, msg)
  \/ \E r \in Reqs, out \in Outcomes : PutUnlinkReturns(r, out)
  \/ \E r \in Reqs, out \in Outcomes, how \in UnhandledOutcomes, msg \in ProviderErrors :
       PutUpdateReturns(r, out, how, msg)

SpecReplace == InitStored /\ [][NextReplace]_vars

\* The audited Postgres variant with one stored document; clients upload,
\* rename and delete.
InitAudited == InitStored /\ variant = "audit"

NextAudited ==
  \/ \E r \in Reqs, in \in ValidUploads : UploadStart(r, in)
  \/ \E r \in Reqs, out \in ScanOutcomes, msg \in ProviderErrors : ScanReturns(r, out, msg)
  \/ \E r \in Reqs, out \in Outcomes, msg \in ProviderErrors : StoreReturns(r, out, msg)
  \/ \E r \in Reqs, out \in Outcomes, msg \in ProviderErrors : InsertReturns(r, out, msg)
  \/ \E r \in Reqs, id \in KnownIds, in \in PutInputs : PutStart(r, id, in)
  \/ \E r \in Reqs, out \in Outcomes, how \in UnhandledOutcomes, msg \in ProviderErrors :
       PutUpdateReturns(r, out, how, msg)
  \/ \E r \in Reqs, id \in KnownIds : DeleteStart(r, id)
  \/ \E r \in Reqs, out \in Outcomes, how \in UnhandledOutcomes, msg \in ProviderErrors :
       DeleteSelectReturns(r, out, how, msg)
  \/ \E r \in Reqs, out \in Outcomes, how \in UnhandledOutcomes, msg \in ProviderErrors :
       DeleteDestroyReturns(r, out, how, msg)
  \/ \E r \in Reqs, out \in Outcomes, how \in UnhandledOutcomes, msg \in ProviderErrors :
       DeleteDbReturns(r, out, how, msg)
  \/ \E r \in Reqs, out \in Outcomes : logAction(r, out)

SpecAudited == InitAudited /\ [][NextAudited]_vars

\* The audited Postgres variant starts on an empty database server that
\* may not accept connections yet.  Timers fire, promises settle and
\* callbacks run.
InitBoot ==
  /\ variant = "audit"
  /\ ENABLE_CLAMAV = TRUE
  /\ documents = {}
  /\ cloud = {}
  /\ uploadDir = {}
  /\ tempDir = {}
  /\ audit_logs = <<>>
  /\ uuidCount = 0
  /\ now = 0
  /\ req = [r \in Reqs |-> IdleReq]
  /\ boot = Booting
  /\ client = NoBrowser

NextBoot ==
  \/ DbChanges
  \/ \E out \in Outcomes : ConnectReturns(out)
  \/ RetryTimerFires
  \/ InitDbStarts
  \/ \E out \in Outcomes : InitDbQueryReturns(out)

SpecBoot ==
  /\ InitBoot /\ [][NextBoot]_vars
  /\ WF_vars(\E out \in Outcomes : ConnectReturns(out))
  /\ WF_vars(RetryTimerFires)
  /\ WF_vars(InitDbStarts)
  /\ WF_vars(\E out \in Outcomes : InitDbQueryReturns(out))

\* A shelf of ShelfSize documents of different doc_types, uploaded one per
\* tick: the i-th at time i.  Clients list it while the database answers.
ShelfSize == 3

ShelfType(i) == IF i = 1 THEN "process" ELSE IF i = 2 THEN "work" ELSE "memo"

\* The row an upload like the seed with doc_type ShelfType(i) left.
ShelfRow(i) == [SeedRow(i) EXCEPT !.doc_type = ShelfType(i)]

InitShelf ==
  /\ variant \in Variants
  /\ ENABLE_CLAMAV \in BOOLEAN
  /\ (variant # "clam" => ENABLE_CLAMAV = (variant = "audit"))
  /\ documents = {ShelfRow(i) : i \in 1..ShelfSize}
  /\ cloud = IF variant = "fs" THEN {} ELSE {SeedBlob(i) : i \in 1..ShelfSize}
  /\ uploadDir = IF variant = "fs" THEN {SeedDisk(i) : i \in 1..ShelfSize} ELSE {}
  /\ tempDir = {}
  /\ audit_logs = IF variant = "audit"
                    THEN [i \in 1..ShelfSize |-> [document_id |-> i, action |-> "UPLOAD"]]
                  ELSE <<>>
  /\ uuidCount = IF variant = "fs" THEN 2 * ShelfSize ELSE ShelfSize
  /\ now = ShelfSize
  /\ req = [r \in Reqs |-> IdleReq]
  /\ boot = Started
  /\ client = NoBrowser

NextShelf ==
  \E r \in Reqs, q \in ShelfInputs, msg \in ProviderErrors, up \in BOOLEAN :
    ListDocs(r, q, "ok", "hung", msg, up)

SpecShelf == InitShelf /\ [][NextShelf]_vars

\* A browser opens the page of a server that holds the shelf; the user
\* changes the type filter and the responses arrive in any order.
InitClient ==
  /\ variant \in Variants
  /\ ENABLE_CLAMAV \in BOOLEAN
  /\ (variant # "clam" => ENABLE_CLAMAV = (variant = "audit"))
  /\ documents = {ShelfRow(i) : i \in 1..ShelfSize}
  /\ cloud = IF variant = "fs" THEN {} ELSE {SeedBlob(i) : i \in 1..ShelfSize}
  /\ uploadDir = IF variant = "fs" THEN {SeedDisk(i) : i \in 1..ShelfSize} ELSE {}
  /\ tempDir = {}
  /\ audit_logs = IF variant = "audit"
                    THEN [i \in 1..ShelfSize |-> [document_id |-> i, action |-> "UPLOAD"]]
                  ELSE <<>>
  /\ uuidCount = IF variant = "fs" THEN 2 * ShelfSize ELSE ShelfSize
  /\ now = ShelfSize
  /\ req = [r \in Reqs |-> IdleReq]
  /\ boot = Started
  /\ \E app \in Apps : client = Mounted(app)

NextClient ==
  \/ \E f \in FilterChoices : ChangeFilter(f)
  \/ \E f \in FilterChoices : DebounceFires(f)
  \/ \E x \in client.inflight, out \in Outcomes, up \in BOOLEAN : ResponseArrives(x, out, up)

SpecClient == InitClient /\ [][NextClient]_vars

\* ---------------------------------------------------------------- typing
TypeOK ==
  /\ variant \in Variants
  /\ ENABLE_CLAMAV \in BOOLEAN
  /\ tempDir \subseteq Reqs
  /\ uuidCount \in 0..(2 * (MaxReqs + DEFAULT_LIMIT + 1))
  /\ now \in 0..(MaxReqs + DEFAULT_LIMIT + 1)
  /\ \A r \in Reqs : req[r].status \in {0, 200, 400, 404, 500}

\* ================================================================ claims
Uploads == {r \in Reqs : req[r].kind = "upload"}

Deletes == {r \in Reqs : req[r].kind = "delete"}

Responded(r) == req[r].pc = "done"

Returned(r, c, o) == <<c, o>> \in req[r].outs

\* The blob a row references exists in the store of the deployed variant.
BlobExists(d) ==
  IF variant = "fs" THEN \E f \in uploadDir : f.stored_name = d.stored_name
  ELSE IF variant \in {"pg", "clam"} THEN \E b \in cloud : b.public_id = d.file_public_id
  ELSE \E b \in cloud : secure_url(b) = d.file_url

Quiescent == \A r \in Reqs : ~InFlight(req[r])

\* C1: an upload whose declared MIME type is not PDF, DOC or DOCX is
\* answered 400 and has caused neither an object-store upload nor an INSERT.
C1_DisallowedTypeRejected ==
  \A r \in Uploads :
    (Responded(r) /\ req[r].file.present /\ req[r].file.mimetype \notin allowedTypes)
      => /\ req[r].status = 400
         /\ "store" \notin req[r].calls
         /\ "insert" \notin req[r].calls

\* C2: when the scanner reports the file infected the upload is answered
\* 400 (never 500), the object store is not invoked and no row is inserted.
C2_InfectedRejected400 ==
  \A r \in Uploads :
    Returned(r, "scan", "infected")
      => /\ Responded(r)
         /\ req[r].status = 400
         /\ "store" \notin req[r].calls
         /\ "insert" \notin req[r].calls

\* C3: when the object-store upload fails the request is answered 500, the
\* INSERT is never issued, and every row of the table comes from a request
\* whose own INSERT was issued.
C3_StoreFailureAborts ==
  /\ \A r \in Uploads :
       Returned(r, "store", "fail")
         => /\ Responded(r)
            /\ req[r].status = 500
            /\ "insert" \notin req[r].calls
            /\ req[r].meta = {}
  /\ \A d \in documents :
       \E q \in Uploads : req[q].id = d.id /\ Returned(q, "store", "ok")
                          /\ "insert" \in req[q].calls

C3_Witness ==
  \E r \in Uploads : Returned(r, "store", "fail") /\ Responded(r)
                     /\ variant \in TempVariants

\* C4: when the INSERT fails after the blob was stored, the handler has
\* attempted to delete that blob by the time it answers 500.
C4_CompensatingDelete ==
  \A r \in Uploads :
    (Returned(r, "insert", "fail") /\ Responded(r))
      => /\ req[r].status = 500
         /\ "destroy" \in req[r].calls

\* C5: whenever no request is in flight, every row of the documents table
\* references a blob that exists in the store.
C5_NoRowWithoutBlob ==
  Quiescent => \A d \in documents : BlobExists(d)

\* C6: a zero-byte upload is answered 400; no zero-byte blob is stored and
\* no row of size 0 is inserted.
C6_ZeroByteRejected ==
  /\ \A r \in Uploads :
       (Responded(r) /\ req[r].file.present /\ req[r].file.size = 0)
         => req[r].status = 400
  /\ \A b \in cloud : b.size # 0
  /\ \A f \in uploadDir : f.size # 0
  /\ \A d \in documents : d.size # 0

C8_TempFileReleased ==
  \A r \in Uploads : Responded(r) => r \notin tempDir

C8_Witness ==
  \E r \in Uploads :
    /\ variant \in TempVariants
    /\ Responded(r)
    /\ req[r].file.present
    /\ \/ Returned(r, "store", "fail")
       \/ Returned(r, "insert", "fail")

\* C9: every step of an upload request leaves the existing rows and blobs
\* in place; the step in which the store accepts the file adds exactly one
\* blob, the step in which the INSERT succeeds adds exactly one row, no
\* other step adds any, and a 200 answer follows exactly one of each.
C9_ExactlyOneRowOneBlob ==
  [][\A r \in Reqs :
       (req'[r] # req[r] /\ req'[r].kind = "upload")
         => /\ documents \subseteq documents'
            /\ cloud \subseteq cloud'
            /\ uploadDir \subseteq uploadDir'
            /\ Cardinality(documents' \ documents) =
                 (IF <<"insert", "ok">> \in req'[r].outs \ req[r].outs THEN 1 ELSE 0)
            /\ Cardinality(cloud' \ cloud) + Cardinality(uploadDir' \ uploadDir) =
                 (IF <<"store", "ok">> \in req'[r].outs \ req[r].outs THEN 1 ELSE 0)
            /\ (req'[r].status = 200
                  => /\ <<"store", "ok">> \in req'[r].outs
                     /\ <<"insert", "ok">> \in req'[r].outs)]_vars

C9_Witness ==
  \E r \in Uploads :
    /\ req[r].status = 200
    /\ Cardinality(documents) = 2
    /\ Cardinality(cloud) + Cardinality(uploadDir) = 2

\* C10: a DELETE whose blob deletion fails still issues the metadata
\* deletion, and answers success once that deletion has succeeded.
C10_DeleteDespiteBlobFailure ==
  \A r \in Deletes :
    Returned(r, "destroy", "fail")
      => /\ "dbdelete" \in req[r].calls
         /\ req[r].pc # "hung"
         /\ (Returned(r, "dbdelete", "ok") /\ Responded(r) => req[r].status = 200)

Puts == {r \in Reqs : req[r].kind = "put"}

Lists == {r \in Reqs : req[r].kind = "list"}

\* None of the external calls of request r has failed.
NoFailure(r) == \A o \in req[r].outs : o[2] # "fail"

\* C11: of two DELETE requests for the same id that found the record and
\* whose calls all succeeded, exactly one is answered success and the other
\* 404, whatever the interleaving of their steps.
C11_OneDeleteSucceeds ==
  \A r1, r2 \in Deletes :
    (/\ r1 # r2 /\ req[r1].id = req[r2].id
     /\ Responded(r1) /\ Responded(r2)
     /\ NoFailure(r1) /\ NoFailure(r2)
     /\ req[r1].row # {})
      => {req[r1].status, req[r2].status} = {200, 404}

\* C12: once a DELETE all of whose calls succeeded has answered success,
\* the table holds no row of that id and the store does not hold the blob
\* that the deleted row referenced.
C12_DeletedRowAndBlobGone ==
  \A r \in Deletes :
    (Responded(r) /\ req[r].status = 200 /\ NoFailure(r))
      => /\ \A d \in documents : d.id # req[r].id
         /\ \A d \in req[r].row : ~BlobExists(d)

\* C13: once a DELETE of an id has answered success, no row of that id is
\* in the table, every listing answered from then on leaves the id out, and
\* every DELETE of that id whose SELECT runs from then on is answered 404.
C13_DeletedStaysGone ==
  [][\A q \in Deletes : \A r \in Reqs :
       (Responded(q) /\ req[q].status = 200)
         => /\ \A d \in documents' : d.id # req[q].id
            /\ (req[r].kind = "idle" /\ req'[r].kind = "list")
                 => \A i \in 1..Len(req'[r].list) : req'[r].list[i].id # req[q].id
            /\ (/\ req'[r].kind = "delete" /\ req'[r].id = req[q].id
                /\ <<"select", "ok">> \in req'[r].outs \ req[r].outs)
                 => req'[r].pc = "done" /\ req'[r].status = 404]_vars

C13_Witness ==
  \E q \in Deletes : \E r \in Reqs \ {q} :
    /\ req[q].status = 200
    /\ \/ /\ req[r].kind = "list" /\ req[r].status = 200
          /\ req[r].query = NoFilters /\ req[r].list = <<>>
       \/ /\ req[r].kind = "delete" /\ req[r].id = req[q].id
          /\ Returned(r, "select", "ok") /\ req[r].status = 404

\* The step in which the UPDATE of PUT request r succeeds.
Updates(r) ==
  /\ req'[r].kind = "put"
  /\ <<"update", "ok">> \in req'[r].outs \ req[r].outs

\* C14: the UPDATE of a successful rename (a PUT with a title) changes the
\* title of the row of that id to the new title and leaves its other
\* fields, every other row and every blob as they were.
C14_RenameChangesOnlyTitle ==
  [][\A r \in Reqs :
       (Updates(r) /\ req'[r].body.title # <<>> /\ req'[r].status # 404)
         => /\ documents' =
                 {IF d.id = req'[r].id THEN [d EXCEPT !.title = req'[r].body.title]
                  ELSE d : d \in documents}
            /\ cloud' = cloud
            /\ uploadDir' = uploadDir]_vars

\* The query by which the PUT handler learns whether the id exists.
PutLookup == IF variant = "fs" THEN "select" ELSE "update"

C16_TitleRequired ==
  /\ \A r \in Puts :
       (Responded(r) /\ req[r].body.title = <<>>) => req[r].status \in 400..499
  /\ \A d \in documents : d.title # <<>>

\* C17: the row inserted for an upload of an allowed type and non-zero
\* length has size = the byte length of the payload and mime_type = the
\* declared type, and so has the row of that id in the table.
C17_SizeAndMimeRecorded ==
  \A r \in Uploads :
    (/\ Returned(r, "insert", "ok")
     /\ req[r].file.mimetype \in allowedTypes /\ req[r].file.size > 0)
      => \A d \in req[r].meta \cup {x \in documents : x.id = req[r].id} :
           d.size = req[r].file.size /\ d.mime_type = req[r].file.mimetype

C17_Witness ==
  \E r \in Uploads : \E d \in documents :
    /\ Returned(r, "insert", "ok") /\ d.id = req[r].id
    /\ req[r].file.mimetype \in allowedTypes /\ req[r].file.size > 0

\* C18: the row inserted for an upload carries the title supplied, or the
\* original_name when none was; the description supplied, or "" when none
\* was; the doc_type supplied, or "process" when none was.
C18_MetadataDefaults ==
  \A r \in Uploads :
    Returned(r, "insert", "ok")
      => \A d \in req[r].meta :
           /\ d.title = IF req[r].body.title # <<>> THEN req[r].body.title
                         ELSE req[r].file.originalname
           /\ d.description = req[r].body.description
           /\ d.doc_type = IF req[r].body.doc_type # "" THEN req[r].body.doc_type
                            ELSE "process"

\* The upload that stored row d has been answered success (the rows that
\* no request of this run inserted are those of earlier, answered uploads).
Answered(d) == \A u \in Uploads : req[u].id = d.id => req[u].status = 200

\* The ids of the rows that list request rq was sent.
Listed(rq) == {rq.list[i].id : i \in 1..Len(rq.list)}

\* The upload_date of every inserted row is not earlier than the time just
\* before its upload request arrived.
UploadDateNotEarlier ==
  \A u \in Uploads :
    Returned(u, "insert", "ok") => \A d \in req[u].meta : d.upload_date >= req[u].t0

\* C19 (as stated): every listing with no filters contains every stored
\* row whose upload was answered success, and the upload_date of an
\* uploaded row is not earlier than the time just before the request.
C19_ListingShowsUpload ==
  [][/\ UploadDateNotEarlier
     /\ \A r \in Reqs :
          (/\ req[r].kind = "idle" /\ req'[r].kind = "list"
           /\ req'[r].status = 200 /\ req'[r].query = NoFilters)
            => \A d \in documents : Answered(d) => d.id \in Listed(req'[r])]_vars

\* C19 (amended): every listing with no filters contains every stored row
\* whose upload was answered success and that, where the handler
\* paginates, has fewer than DEFAULT_LIMIT rows of the same or a later
\* upload_date beside it; the upload_date of an uploaded row is not
\* earlier than the time just before the request.
C19_ListingShowsRecentUpload ==
  [][/\ UploadDateNotEarlier
     /\ \A r \in Reqs :
          (/\ req[r].kind = "idle" /\ req'[r].kind = "list"
           /\ req'[r].status = 200 /\ req'[r].query = NoFilters)
            => \A d \in documents :
                 (/\ Answered(d)
                  /\ \/ variant \in {"pg", "clam"}
                     \/ Cardinality({e \in documents :
                           e # d /\ e.upload_date >= d.upload_date}) < DEFAULT_LIMIT)
                   => d.id \in Listed(req'[r])]_vars

C19_Witness ==
  \E u \in Uploads : \E r \in Lists :
    /\ req[u].status = 200 /\ r > u
    /\ req[r].status = 200 /\ req[r].query = NoFilters
    /\ req[u].id \in Listed(req[r])
    /\ Cardinality(Listed(req[r])) = DEFAULT_LIMIT

\* s occurs in t, letter case ignored, every character taken literally.
Contains(t, s) ==
  \E i \in 1..(Len(t) - Len(s) + 1) :
    \A j \in 1..Len(s) : Lower(t[i + j - 1]) = Lower(s[j])

\* C20: a listing with a non-empty search s and no other filter returns
\* exactly the rows whose title or original_name contains s, letter case
\* ignored and every character of s taken literally.
C20_SearchIsLiteralSubstring ==
  [][\A r \in Reqs :
       (/\ req[r].kind = "idle" /\ req'[r].kind = "list" /\ req'[r].status = 200
        /\ req'[r].query.search # <<>> /\ req'[r].query.type = "")
         => {req'[r].list[i].id : i \in 1..Len(req'[r].list)}
              = {d.id : d \in {x \in documents :
                     \/ Contains(x.title, req'[r].query.search)
                     \/ Contains(x.original_name, req'[r].query.search)}}]_vars

\* C21: a listing answered 200 whose type parameter is neither absent nor
\* "all" holds only rows of exactly that doc_type; a listing with no other
\* filter whose type is absent or "all" holds a row of every stored doc_type.
C21_TypeFilterExact ==
  [][\A r \in Reqs :
       (req[r].kind = "idle" /\ req'[r].kind = "list" /\ req'[r].status = 200)
         => LET q == req'[r].query
                l == req'[r].list
            IN /\ q.type \notin {"", "all"}
                    => \A i \in 1..Len(l) : l[i].doc_type = q.type
               /\ q = [NoFilters EXCEPT !.type = q.type] /\ q.type \in {"", "all"}
                    => {l[i].doc_type : i \in 1..Len(l)}
                         = {d.doc_type : d \in documents}]_vars

\* The parameter p of a listing is absent or names a day.
DayOrAbsent(p) == p.kind \in {"absent", "day"}

\* The upload_date t lies within the inclusive day bounds from and to.
WithinDays(t, from, to) ==
  /\ from.kind = "day" => Day(t) >= from.day
  /\ to.kind = "day" => Day(t) <= to.day

\* C22: a listing answered 200 whose only filters are the days from and/or
\* to holds exactly the rows uploaded on a day d with from <= d <= to, at
\* whatever time of that day.
C22_DateBoundsInclusive ==
  [][\A r \in Reqs :
       (/\ req[r].kind = "idle" /\ req'[r].kind = "list" /\ req'[r].status = 200
        /\ DayOrAbsent(req'[r].query.from) /\ DayOrAbsent(req'[r].query.to)
        /\ req'[r].query = [NoFilters EXCEPT !.from = req'[r].query.from,
                                             !.to = req'[r].query.to])
         => {req'[r].list[i].id : i \in 1..Len(req'[r].list)}
              = {d.id : d \in {x \in documents :
                     WithinDays(x.upload_date, req'[r].query.from, req'[r].query.to)}}]_vars

\* The parameter p of a listing is given but is not a date.
NotADate(p) == p.kind \in {"empty", "blank", "malformed"}

\* C23: a listing whose from or to is an empty string, whitespace or a text
\* that is not a date, and that has no other filter, is answered 200 with
\* every stored row, as the listing without that parameter is.
C23_MalformedDateIsAbsent ==
  [][\A r \in Reqs :
       (/\ req[r].kind = "idle" /\ req'[r].kind = "list"
        /\ NotADate(req'[r].query.from) \/ NotADate(req'[r].query.to)
        /\ ~DayOrAbsent(req'[r].query.from) \/ req'[r].query.from = NoDate
        /\ ~DayOrAbsent(req'[r].query.to) \/ req'[r].query.to = NoDate
        /\ req'[r].query = [NoFilters EXCEPT !.from = req'[r].query.from,
                                             !.to = req'[r].query.to])
         => /\ req'[r].status = 200
            /\ {req'[r].list[i].id : i \in 1..Len(req'[r].list)}
                 = {d.id : d \in documents}]_vars

\* The row d satisfies every filter that the query q supplies.
Satisfies(d, q) ==
  /\ q.search # <<>> => Contains(d.title, q.search) \/ Contains(d.original_name, q.search)
  /\ q.type \notin {"", "all"} => d.doc_type = q.type
  /\ WithinDays(d.upload_date, q.from, q.to)

\* C24: a listing answered 200 whose dates are days or absent and that has
\* no limit or offset holds exactly the rows that satisfy all its filters
\* together, and no row of it comes before a row of a later upload_date; a
\* listing that no row satisfies is answered 200 as well.
C24_FiltersConjunctiveAndOrdered ==
  [][\A r \in Reqs :
       (/\ req[r].kind = "idle" /\ req'[r].kind = "list"
        /\ NoFailure(r)'
        /\ DayOrAbsent(req'[r].query.from) /\ DayOrAbsent(req'[r].query.to)
        /\ req'[r].query.limit = Absent /\ req'[r].query.offset = Absent)
         => LET l == req'[r].list
            IN /\ req'[r].status = 200
               /\ {l[i].id : i \in 1..Len(l)}
                    = {d.id : d \in {x \in documents : Satisfies(x, req'[r].query)}}
               /\ \A i, j \in 1..Len(l) :
                    i < j => l[i].upload_date >= l[j].upload_date]_vars

\* The position of the row d in the upload_date-descending sequence of the
\* rows of S, whose upload_dates differ.
Rank(d, S) == 1 + Cardinality({e \in S : e.upload_date > d.upload_date})

\* C25: a listing answered 200 that has a limit L, an offset O (0 when
\* absent) and no filter holds at most L rows: the rows at positions O+1 ..
\* O+L of the stored rows in upload_date-descending order, in that order.
C25_PaginationHonoured ==
  [][\A r \in Reqs :
       (/\ req[r].kind = "idle" /\ req'[r].kind = "list" /\ req'[r].status = 200
        /\ req'[r].query.limit # Absent
        /\ req'[r].query = [NoFilters EXCEPT !.limit = req'[r].query.limit,
                                             !.offset = req'[r].query.offset])
         => LET l == req'[r].list
                L == req'[r].query.limit
                O == IF req'[r].query.offset = Absent THEN 0 ELSE req'[r].query.offset
            IN /\ Len(l) <= L
               /\ {l[i].id : i \in 1..Len(l)}
                    = {d.id : d \in {x \in documents :
                                       Rank(x, documents) \in (O + 1)..(O + L)}}
               /\ \A i, j \in 1..Len(l) :
                    i < j => l[i].upload_date >= l[j].upload_date]_vars

\* Ids of the rows stored when the server started.
StartIds == {SeedRow(1).id}

\* Uploads whose handler has generated the id of its row.
WithId == {r \in Uploads : req[r].id # 0}

\* C26: no two stored rows share an id; the ids generated for uploads
\* differ from each other, whether the uploads overlapped or not, and from
\* the id of every row stored earlier, deleted since or not.
C26_IdsUniqueNeverReused ==
  /\ \A d, e \in documents : d.id = e.id => d = e
  /\ \A r \in WithId : req[r].id \notin StartIds
  /\ \A r, q \in WithId : req[r].id = req[q].id => r = q

\* C26 happens: the row stored at the start was deleted on request and an
\* upload that arrived after the DELETE request has stored its row.
C26_Witness ==
  \E r \in Deletes, q \in Uploads :
    /\ req[r].id \in StartIds /\ req[r].status = 200
    /\ \A d \in documents : d.id \notin StartIds
    /\ req[q].t0 > req[r].t0 /\ req[q].status = 200
    /\ \E d \in documents : d.id = req[q].id

Downloads == {r \in Reqs : req[r].kind = "download"}

\* C27: when the SELECT of a download returns, the request is answered 404
\* 'Not found' if no row has the id, and 404 'File missing' if a row has
\* it but its file is not in the upload directory; in neither case is the
\* request left unanswered or answered 200.  Where the route does not
\* exist the request is answered 404.
C27_DownloadNotFound ==
  [][\A r \in Reqs :
       /\ (/\ req[r].kind = "download" /\ req[r].pc = "select"
           /\ Returned(r, "select", "ok")')
            => LET rows == {d \in documents : d.id = req[r].id}
               IN /\ rows = {} => /\ Responded(r)' /\ req'[r].status = 404
                                  /\ req'[r].error = "Not found"
                  /\ (rows # {} /\ \A d \in rows : ~existsSync(d))
                       => /\ Responded(r)' /\ req'[r].status = 404
                          /\ req'[r].error = "File missing"
       /\ (req[r].kind = "idle" /\ req'[r].kind = "download" /\ Responded(r)')
            => req'[r].status = 404]_vars

\* C27 happens: a DELETE removed the file of a row and failed to remove the
\* row, and a download of that row was answered 404 'File missing'.
C27_Witness ==
  \E q \in Downloads :
    /\ Returned(q, "select", "ok")
    /\ \E d \in documents : d.id = req[q].id /\ ~existsSync(d)
    /\ req[q].status = 404 /\ req[q].error = "File missing"

\* C28: an upload whose declared MIME type is not allowed never has the
\* scanner, the object store or the metadata store called for it, and once
\* answered it is answered with a rejection.
C28_TypeCheckBeforeCalls ==
  \A r \in Uploads :
    (req[r].file.present /\ req[r].file.mimetype \notin allowedTypes)
      => /\ req[r].calls = {}
         /\ Responded(r) => req[r].status \in {400, 500}

\* The fields of a record that every variant stores.
RecordFields ==
  {"id", "original_name", "title", "description", "doc_type", "mime_type",
   "size", "upload_date"}

\* C29: the body of an upload answered 200 has every field of the record
\* and its storage reference (stored_name in the filesystem variant,
\* file_url in the others), each equal to the value of the inserted row.
C29_UploadReturnsFullRecord ==
  \A r \in Uploads :
    (Responded(r) /\ req[r].status = 200)
      => /\ req[r].sent # {}
         /\ \A b \in req[r].sent, row \in req[r].meta :
              LET fields == RecordFields
                              \cup {IF variant = "fs" THEN "stored_name" ELSE "file_url"}
              IN /\ fields \subseteq DOMAIN b
                 /\ \A f \in fields \cap DOMAIN b : b[f] = row[f]

\* C30: two uploads of the same file and fields that were answered with a
\* failure after the same calls returned the same way (the same step
\* failed, or the scanner found the file infected), whatever the messages
\* of the errors and the signature names were, were sent the same status
\* and the same body.
C30_FailureBodyIndependent ==
  \A r, q \in Uploads :
    (/\ Responded(r) /\ Responded(q)
     /\ req[r].status # 200
     /\ req[r].file = req[q].file /\ req[r].body = req[q].body
     /\ req[r].outs = req[q].outs)
      => /\ req[r].status = req[q].status
         /\ req[r].error = req[q].error
         /\ req[r].sent = req[q].sent

\* C31: in the filesystem variant a download is never ended by a stream
\* error that nothing handles and never left unanswered: whenever its
\* database query succeeded and it has finished, it has streamed the file
\* (200) or was answered 404.
C31_DownloadRaceSafe ==
  \A r \in Downloads :
    variant = "fs"
      => /\ req[r].pc # "hung"
         /\ ~Returned(r, "stream", "fail")
         /\ (Responded(r) /\ Returned(r, "select", "ok")) => req[r].status \in {200, 404}

\* C32: in the filesystem variant a PUT that stored a replacement file and
\* has been answered leaves no unreferenced file: answered success, the row
\* references the new file and the file the row referenced before is gone
\* from the upload directory; answered otherwise, the new file is not in
\* the upload directory.
C32_ReplaceLeavesNoOrphan ==
  \A r \in Puts :
    (variant = "fs" /\ req[r].stored # {} /\ Responded(r))
      => \A st \in req[r].stored :
           /\ req[r].status = 200
                => /\ \E d \in documents :
                        d.id = req[r].id /\ d.stored_name = st.stored_name
                   /\ \A old \in req[r].row : ~existsSync(old)
           /\ req[r].status # 200 => st \notin uploadDir

\* C33: in the filesystem variant, when a PUT that supplies only a title
\* and a PUT that supplies only a description, both for the same id and
\* without a file, have both been answered success, the row holds the new
\* title and the new description.
C33_BothUpdatesTakeEffect ==
  \A r, q \in Puts :
    (/\ variant = "fs" /\ req[r].id = req[q].id
     /\ ~req[r].file.present /\ ~req[q].file.present
     /\ req[r].body.title # <<>> /\ req[r].body.description = ""
     /\ req[q].body.title = <<>> /\ req[q].body.description # ""
     /\ req[r].body.doc_type = "" /\ req[q].body.doc_type = ""
     /\ Responded(r) /\ req[r].status = 200
     /\ Responded(q) /\ req[q].status = 200)
      => \A d \in documents :
           d.id = req[r].id => /\ d.title = req[r].body.title
                               /\ d.description = req[q].body.description

\* Requests of the kinds that write the audit log.
Audited == {r \in Reqs : req[r].kind \in {"upload", "put", "delete"}}

\* The call of a request that changes the documents table.
TableCall(rq) ==
  IF rq.kind = "upload" THEN "insert"
  ELSE IF rq.kind = "put" THEN "update" ELSE "dbdelete"

\* Number of audit rows for document id with action a.
AuditRows(id, a) ==
  Cardinality({i \in DOMAIN audit_logs :
                 audit_logs[i] = [document_id |-> id, action |-> a]})

\* Number of requests whose audit insert for id and a succeeded.
AuditInserts(id, a) ==
  Cardinality({r \in Audited : /\ req[r].id = id /\ AuditAction(req[r]) = a
                               /\ Returned(r, "audit", "ok")})

\* The audit row that the upload of the stored document wrote.
StartRows(id, a) == IF id \in StartIds /\ a = "UPLOAD" THEN 1 ELSE 0

\* What C34 says of one state of the audited variant.
AuditDiscipline ==
  /\ \A r \in Audited :
       /\ (Responded(r) /\ req[r].status = 200)
            => Returned(r, "audit", "ok") \/ Returned(r, "audit", "fail")
       /\ "audit" \in req[r].calls => Returned(r, TableCall(req[r]), "ok")
       /\ (Responded(r) /\ req[r].status # 200) => "audit" \notin req[r].calls
       /\ ~(Returned(r, "audit", "ok") /\ Returned(r, "audit", "fail"))
  /\ \A r \in Audited, a \in {"UPLOAD", "RENAME", "DELETE"} :
       AuditRows(req[r].id, a) = StartRows(req[r].id, a) + AuditInserts(req[r].id, a)

\* C34: in the audited variant a request answered success has made one
\* audit insert, for its document id and with its action, after its change
\* of the documents table returned and before the response; a request
\* answered with an error has made none; the audit log holds one row per
\* audit insert that succeeded; and the step in which an audit insert
\* returns, failing or not, sends the success response and leaves the
\* documents table as it is.
C34_AuditTrail ==
  [][/\ variant = "audit" => AuditDiscipline'
     /\ \A r \in Reqs :
          (variant = "audit" /\ req[r].pc = "audit" /\ req'[r].pc # "audit")
            => /\ Responded(r)' /\ req'[r].status = 200
               /\ documents' = documents]_vars

\* C34 happens: one request was answered success after its audit insert
\* wrote its row, another was answered success although its audit insert
\* failed, and its change of the documents table stands.
C34_Witness ==
  /\ variant = "audit"
  /\ \E r, q \in Audited :
       /\ Responded(r) /\ req[r].status = 200 /\ Returned(r, "audit", "ok")
       /\ AuditRows(req[r].id, AuditAction(req[r])) > StartRows(req[r].id, AuditAction(req[r]))
       /\ Responded(q) /\ req[q].status = 200 /\ Returned(q, "audit", "fail")
       /\ req[q].kind = "delete" /\ \A d \in documents : d.id # req[q].id

\* What C35 says of one state of the startup.
RetryDiscipline ==
  /\ boot.initRuns <= boot.connects
  /\ boot.initRuns <= 1
  /\ boot.timers = boot.failures
  /\ boot.attempts = boot.failures + (IF boot.pc = "waiting" THEN 0 ELSE 1)
  /\ boot.pc = "waiting" => boot.connects = 0

\* C35: initDb runs only after a connection attempt succeeded and at most
\* once; every failed attempt has scheduled one new attempt, which is
\* made, however many attempts failed before; and once an attempt has
\* succeeded initDb runs.
C35_ConnectRetryThenInitOnce ==
  /\ []RetryDiscipline
  /\ (boot.pc = "waiting") ~> (boot.pc = "connecting")
  /\ (boot.connects > 0) ~> (boot.initRuns = 1 /\ boot.pc = "up")

\* C35 happens: MaxFailures attempts failed, the next one succeeded and
\* initDb has run.
C35_Witness ==
  /\ boot.failures = MaxFailures
  /\ boot.connects = 1
  /\ boot.initRuns = 1
  /\ boot.pc = "up"

\* The user has stopped changing the filters and every list request has
\* completed; none was answered with an error.
Settled ==
  /\ client.app \in Apps /\ ~client.crashed
  /\ client.timer = {} /\ client.inflight = {}
  /\ client.errors = 0

\* C36: once the client has settled, the list it displays is the server's
\* response for the current filter values; and filter changes made while
\* the 300 ms timer is pending lead to one request: at most one timer is
\* pending, and no two pending requests were sent for the same filter
\* change.
C36_LatestFiltersDisplayed ==
  /\ Settled => client.files = ListResult(ClientQuery(client.app, client.filters), TRUE)
  /\ Cardinality(client.timer) <= 1
  /\ \A x, y \in client.inflight :
       (x.edit = y.edit /\ x.n > 1 /\ y.n > 1) => x = y
====
